---- MODULE Spec2Model ----
(***************************************************************************)
(* Programa +GEMS: heroes nominate heroes for crystal rewards.  A set of    *)
(* Streamlit pages over four relations (dim_hero, dim_pillar, dim_mission,  *)
(* fact_nomination).  The model covers the nomination page (3), the         *)
(* dashboard (1), the approval page (4) and the two administration pages    *)
(* (5, 6).                                                                  *)
(*                                                                          *)
(* Text values are sequences of tokens; the token " " is whitespace, so     *)
(* that str.strip() is computed and not assumed.  Python's None is the      *)
(* one-token text None; ids are positive integers and NoId stands for an    *)
(* absent session_state key.                                                *)
(***************************************************************************)
EXTENDS Integers, Sequences, FiniteSets, TLC

VARIABLES
    dim_hero,         \* set of rows [hero_id, hero_name, hero_team]
    dim_pillar,       \* set of rows [pillar_id, pillar_name, pillar_image]
    dim_mission,      \* set of rows [mission_id, mission_name, mission_describe, crystals_reward, pillar_id]
    fact_nomination,  \* sequence of rows in insertion order; nomination_id is the serial key
    hero_seq,         \* last value handed out by dim_hero's serial key
    pillar_seq,       \* last value handed out by dim_pillar's serial key
    mission_seq,      \* last value handed out by dim_mission's serial key
    session_state,    \* per browser session: authenticated, editing_*_id
    run,              \* per browser session: the approval-page script run in progress
    ADMIN_PASSWORD,   \* os.getenv("ADMIN_PASSWORD")
    call,             \* the last operation performed, its inputs and what it returned
    committed,        \* per nomination: the target of the status write committed last
    admin_writes,     \* administrative writes committed so far
    cache_data        \* st.cache_data: what load_dashboard_data last returned, while it is kept

vars == <<dim_hero, dim_pillar, dim_mission, fact_nomination, hero_seq, pillar_seq,
          mission_seq, session_state, run, ADMIN_PASSWORD, call, committed, admin_writes,
          cache_data>>

dbDims == <<dim_hero, dim_pillar, dim_mission, hero_seq, pillar_seq, mission_seq,
            admin_writes>>

----------------------------------------------------------------------------
(* Bounds *)

\* fact_nomination rows the nomination page and the repository calls may reach,
\* and rows stored when the dashboard is opened
MaxNominations == 2
\* largest top_n show_sankey_diagram is called with directly
MaxTopN == 2
\* pending nominations already stored when the approval page is opened
MaxSeeded == 1
\* committed administrative writes (hero, pillar, mission) in one behaviour
MaxAdminWrites == 1

----------------------------------------------------------------------------
(* Values *)

None == <<"<None>">>
NoId == 0
WS == " "

Sessions == {"s1", "s2"}

Ana == <<"Ana">>
Bruno == <<"Bruno">>
Carla == <<"Carla">>
TeamA == <<"Marketing">>
Teamwork == <<"Teamwork">>
Courage == <<"Courage">>
Helped == <<"Helped teammate">>
Described == <<"described">>

\* what the database driver can do to one open-use-close cycle
Faults == {"none", "connect", "query"}

RECURSIVE lstrip(_)
lstrip(t) == IF t # <<>> /\ Head(t) = WS THEN lstrip(Tail(t)) ELSE t

RECURSIVE rstrip(_)
rstrip(t) ==
    IF t # <<>> /\ t[Len(t)] = WS THEN rstrip(SubSeq(t, 1, Len(t) - 1)) ELSE t

\* str.strip()
strip(t) == rstrip(lstrip(t))

\* Python truthiness of an optional text (None and "" are falsy)
truthy(t) == t # None /\ t # <<>>

\* the column default of approved_flag and refuse_flag (the INSERT of the
\* nomination page names neither column)
DefaultFlag == FALSE

Status(row) ==
    IF row.approved_flag /\ row.refuse_flag THEN "both"
    ELSE IF row.approved_flag THEN "approved"
    ELSE IF row.refuse_flag THEN "refused"
    ELSE "pending"

NominationIds(rows) == {rows[i].nomination_id : i \in DOMAIN rows}

\* the record of committed status writes: none yet for a new nomination
NotWritten == [target |-> "none", writers |-> {}]

\* the record after `who` committed a write of `status` on nomination `id`
Committed(log, id, status, who) ==
    IF id \in DOMAIN log
    THEN [log EXCEPT ![id] = [target |-> status, writers |-> log[id].writers \cup {who}]]
    ELSE log

----------------------------------------------------------------------------
(* Repository layer: pages/3 and pages/4 *)

\* INSERT INTO fact_nomination (nominator_id, nominee_id, mission_id, justification, image)
InsertNominationSql(rows, nominator_id, nominee_id, mission_id, justification, image) ==
    Append(rows, [nomination_id |-> Len(rows) + 1,
                  nominator_id |-> nominator_id,
                  nominee_id |-> nominee_id,
                  mission_id |-> mission_id,
                  justification |-> justification,
                  image |-> image,
                  approved_flag |-> DefaultFlag,
                  refuse_flag |-> DefaultFlag])

\* An insert that reports success without the row having been committed.
insert_nomination_uncommitted(rows, nominator_id, nominee_id, mission_id, justification, image, fault) ==
    IF fault = "connect" THEN [rows |-> rows, ret |-> FALSE]
    ELSE IF fault = "query" THEN [rows |-> rows, ret |-> FALSE]
    ELSE [rows |-> rows, ret |-> TRUE]

\* An insert whose failed statement is not rolled back: the row stays.
insert_nomination_no_rollback(rows, nominator_id, nominee_id, mission_id, justification, image, fault) ==
    IF fault = "connect" THEN [rows |-> rows, ret |-> FALSE]
    ELSE [rows |-> InsertNominationSql(rows, nominator_id, nominee_id, mission_id,
                                       justification, image),
          ret |-> fault = "none"]

\* insert_nomination: False when no connection; rollback and False on an exception
insert_nomination(rows, nominator_id, nominee_id, mission_id, justification, image, fault) ==
    IF fault = "connect" THEN [rows |-> rows, ret |-> FALSE]
    ELSE IF fault = "query" THEN [rows |-> rows, ret |-> FALSE]
    ELSE [rows |-> InsertNominationSql(rows, nominator_id, nominee_id, mission_id,
                                       justification, image),
          ret |-> TRUE]

\* A status write that sets its own flag and leaves the other one alone.
SetFlagOnlySql(rows, nomination_id, status) ==
    [i \in DOMAIN rows |->
        IF rows[i].nomination_id = nomination_id
        THEN IF status = "approved"
             THEN [rows[i] EXCEPT !.approved_flag = TRUE]
             ELSE [rows[i] EXCEPT !.refuse_flag = TRUE]
        ELSE rows[i]]

\* A status write whose refuse branch repeats the statement of the approve branch.
ApproveInBothBranchesSql(rows, nomination_id, status) ==
    [i \in DOMAIN rows |->
        IF rows[i].nomination_id = nomination_id
        THEN [rows[i] EXCEPT !.approved_flag = TRUE, !.refuse_flag = FALSE]
        ELSE rows[i]]

\* A status write that only takes effect on a nomination that is still pending.
UpdatePendingOnlySql(rows, nomination_id, status) ==
    [i \in DOMAIN rows |->
        IF rows[i].nomination_id = nomination_id /\ Status(rows[i]) = "pending"
        THEN [rows[i] EXCEPT !.approved_flag = (status = "approved"),
                             !.refuse_flag = (status = "refused")]
        ELSE rows[i]]

\* A status write without its WHERE clause.
UpdateEveryRowSql(rows, nomination_id, status) ==
    [i \in DOMAIN rows |->
        [rows[i] EXCEPT !.approved_flag = (status = "approved"),
                        !.refuse_flag = (status = "refused")]]

\* UPDATE fact_nomination SET approved_flag = .., refuse_flag = .. WHERE nomination_id = %s
UpdateStatusSql(rows, nomination_id, status) ==
    [i \in DOMAIN rows |->
        IF rows[i].nomination_id = nomination_id
        THEN [rows[i] EXCEPT !.approved_flag = (status = "approved"),
                             !.refuse_flag = (status = "refused")]
        ELSE rows[i]]

\* A status write whose failed statement is not rolled back.
update_nomination_status_no_rollback(rows, nomination_id, status_to_update, fault) ==
    IF fault = "connect" THEN [rows |-> rows, ret |-> FALSE]
    ELSE IF status_to_update \notin {"approved", "refused"} THEN [rows |-> rows, ret |-> FALSE]
    ELSE [rows |-> UpdateStatusSql(rows, nomination_id, status_to_update),
          ret |-> fault = "none"]

\* update_nomination_status
update_nomination_status(rows, nomination_id, status_to_update, fault) ==
    IF fault = "connect" THEN [rows |-> rows, ret |-> FALSE]
    ELSE IF status_to_update \notin {"approved", "refused"} THEN [rows |-> rows, ret |-> FALSE]
    ELSE IF fault = "query" THEN [rows |-> rows, ret |-> FALSE]
    ELSE [rows |-> UpdateStatusSql(rows, nomination_id, status_to_update), ret |-> TRUE]

----------------------------------------------------------------------------
(* Nomination page: pages/3 *)

\* base64.b64encode(anexo.getvalue()).decode('utf-8')
b64encode(bytes) == <<"b64">> \o bytes

\* df.loc[df[col] == value, ..].iloc[0]: the index of the first matching row,
\* 0 when there is none (iloc[0] raises IndexError)
FirstIndex(df, col, value) ==
    IF \E i \in DOMAIN df : df[i][col] = value
    THEN CHOOSE i \in DOMAIN df :
           df[i][col] = value /\ \A j \in 1..(i - 1) : df[j][col] # value
    ELSE 0

\* submit_nomination: resolves the three names and inserts
submit_nomination(nomeador_nome, nomeado_nome, missao_nome, justificativa, anexo, df_herois, df_missoes, rows, fault) ==
    LET base64_image == IF anexo # None THEN b64encode(anexo) ELSE None
        i_nomeador == FirstIndex(df_herois, "hero_name", nomeador_nome)
        i_nomeado == FirstIndex(df_herois, "hero_name", nomeado_nome)
        i_missao == FirstIndex(df_missoes, "mission_name", missao_nome)
    IN  IF i_nomeador = 0 \/ i_nomeado = 0 \/ i_missao = 0
        THEN [rows |-> rows, outcome |-> "raised"]
        ELSE LET r == insert_nomination(rows, df_herois[i_nomeador].hero_id,
                                        df_herois[i_nomeado].hero_id,
                                        df_missoes[i_missao].mission_id,
                                        justificativa, base64_image, fault)
             IN  [rows |-> r.rows, outcome |-> IF r.ret THEN "inserted" ELSE "failed"]

is_self_nomination(nomeador, nomeado) ==
    truthy(nomeador) /\ truthy(nomeado) /\ nomeador = nomeado

\* A validity test that forgets the self-nomination rule.
is_valid_no_self_check(nomeador, nomeado, pilar, missao, justificativa) ==
    /\ truthy(nomeador) /\ truthy(nomeado) /\ truthy(pilar) /\ truthy(missao)
    /\ truthy(strip(justificativa))

\* A validity test that does not trim the justification.
is_valid_no_strip(nomeador, nomeado, pilar, missao, justificativa) ==
    /\ truthy(nomeador) /\ truthy(nomeado) /\ truthy(pilar) /\ truthy(missao)
    /\ truthy(justificativa)
    /\ ~is_self_nomination(nomeador, nomeado)

\* is_valid = all([nomeador, nomeado, pilar, missao, justificativa.strip()]) and not is_self_nomination
is_valid(nomeador, nomeado, pilar, missao, justificativa) ==
    /\ truthy(nomeador) /\ truthy(nomeado) /\ truthy(pilar) /\ truthy(missao)
    /\ truthy(strip(justificativa))
    /\ ~is_self_nomination(nomeador, nomeado)

\* handle_submission: the button is disabled unless is_valid; a click on the
\* enabled button submits
handle_submission(nomeador, nomeado, pilar, missao, justificativa, anexo, df_herois, df_missoes, clicked, rows, fault) ==
    LET warned == is_self_nomination(nomeador, nomeado)
        enabled == is_valid(nomeador, nomeado, pilar, missao, justificativa)
    IN  IF clicked /\ enabled
        THEN LET r == submit_nomination(nomeador, nomeado, missao, justificativa, anexo,
                                        df_herois, df_missoes, rows, fault)
             IN  [rows |-> r.rows, outcome |-> r.outcome, warned |-> warned]
        ELSE [rows |-> rows, outcome |-> "disabled", warned |-> warned]

\* the position of a name in the collation ORDER BY uses
NameRank(name) ==
    CASE name = <<>> -> 0
      [] name = Ana -> 1
      [] name = Bruno -> 2
      [] name = Carla -> 3
      [] name = Courage -> 4
      [] name = Helped -> 5
      [] name = Teamwork -> 6
      [] OTHER -> 7

\* the sort key of a row under ORDER BY the columns `by` (none, one or two)
RowRank(r, by) ==
    IF by = <<>> THEN 0
    ELSE IF Len(by) = 1 THEN NameRank(r[by[1]])
    ELSE NameRank(r[by[1]]) * 8 + NameRank(r[by[2]])

\* every order a query may return `rows` in: sorted by the columns `by`, ties
\* in any order (any order at all when the query has no ORDER BY)
OrderedBy(rows, by) ==
    {df \in [1..Cardinality(rows) -> rows] :
        /\ \A i, j \in DOMAIN df : i # j => df[i] # df[j]
        /\ \A i, j \in DOMAIN df : i < j => RowRank(df[i], by) <= RowRank(df[j], by)}

\* load_data_from_db: an empty frame when the connection or the query fails
load_data_from_db(results, fault) == IF fault = "none" THEN results ELSE {<<>>}

\* SELECT hero_id, hero_name FROM dim_hero ORDER BY hero_name
HeroesQuery(heroes) ==
    OrderedBy({[hero_id |-> h.hero_id, hero_name |-> h.hero_name] : h \in heroes},
              <<"hero_name">>)

\* SELECT m.mission_id, m.mission_name, m.mission_describe, m.crystals_reward, p.pillar_name
\* FROM dim_mission m JOIN dim_pillar p ON m.pillar_id = p.pillar_id
MissionsQuery(missions, pillars) ==
    OrderedBy({[mission_id |-> m.mission_id, mission_name |-> m.mission_name,
                mission_describe |-> m.mission_describe,
                crystals_reward |-> m.crystals_reward, pillar_name |-> p.pillar_name] :
                  <<m, p>> \in {mp \in missions \X pillars : mp[1].pillar_id = mp[2].pillar_id}},
              <<>>)

Column(df, col) == {df[i][col] : i \in DOMAIN df}

\* select_heroes: the nominee's options leave out the chosen nominator
NomineeOptions(df_herois, nomeador) ==
    IF truthy(nomeador) THEN Column(df_herois, "hero_name") \ {nomeador}
    ELSE Column(df_herois, "hero_name")

\* select_mission: the missions offered are those of the chosen pillar
MissionOptions(df_missoes, pilar) ==
    IF truthy(pilar)
    THEN {df_missoes[i].mission_name : i \in {j \in DOMAIN df_missoes :
                                                df_missoes[j].pillar_name = pilar}}
    ELSE {}

----------------------------------------------------------------------------
(* Initial states *)

SeedHeroes == {[hero_id |-> 1, hero_name |-> Ana, hero_team |-> TeamA],
               [hero_id |-> 2, hero_name |-> Bruno, hero_team |-> TeamA]}
SeedPillars == {[pillar_id |-> 1, pillar_name |-> Teamwork, pillar_image |-> None]}
SeedMissions == {[mission_id |-> 1, mission_name |-> Helped, mission_describe |-> Described,
                  crystals_reward |-> 10, pillar_id |-> 1]}

NoCall == [op |-> "none"]
\* nothing kept by st.cache_data (never loaded, or the entry has expired)
NoCache == [kept |-> FALSE]
IdleRun == [pc |-> "idle"]
FreshSession == [authenticated |-> FALSE, editing_hero_id |-> NoId,
                 editing_pillar_id |-> NoId, editing_mission_id |-> NoId]

\* pending nominations as the nomination page leaves them
SeededNomination(i) ==
    [nomination_id |-> i,
     nominator_id |-> IF i % 2 = 1 THEN 1 ELSE 2,
     nominee_id |-> IF i % 2 = 1 THEN 2 ELSE 1,
     mission_id |-> 1, justification |-> <<"ok">>, image |-> None,
     approved_flag |-> DefaultFlag, refuse_flag |-> DefaultFlag]

InitDims ==
    /\ dim_hero = SeedHeroes
    /\ dim_pillar = SeedPillars
    /\ dim_mission = SeedMissions
    /\ hero_seq = 2
    /\ pillar_seq = 1
    /\ mission_seq = 1
    /\ session_state = [s \in Sessions |-> FreshSession]
    /\ run = [s \in Sessions |-> IdleRun]
    /\ ADMIN_PASSWORD = <<"secret">>
    /\ call = NoCall
    /\ admin_writes = 0
    /\ cache_data = NoCache

\* the approval page is opened on a store that holds pending nominations
InitSeeded ==
    /\ InitDims
    /\ fact_nomination = [i \in 1..MaxSeeded |-> SeededNomination(i)]
    /\ committed = [i \in 1..MaxSeeded |-> NotWritten]

\* the gated pages are opened on a store that holds one pending nomination
InitApp ==
    /\ InitDims
    /\ fact_nomination = <<SeededNomination(1)>>
    /\ committed = <<NotWritten>>

\* an empty fact table
Init ==
    /\ InitDims
    /\ fact_nomination = <<>>
    /\ committed = <<>>

----------------------------------------------------------------------------
(* The repository functions called directly *)

RepoInsert ==
    /\ Len(fact_nomination) < MaxNominations
    /\ \E nominator_id \in 1..2, nominee_id \in 1..2, fault \in Faults :
         LET r == insert_nomination(fact_nomination, nominator_id, nominee_id, 1,
                                    <<"ok">>, None, fault)
         IN  /\ fact_nomination' = r.rows
             /\ committed' = IF r.ret THEN Append(committed, NotWritten) ELSE committed
             /\ call' = [op |-> "insert_nomination", nominator_id |-> nominator_id,
                         nominee_id |-> nominee_id, fault |-> fault, ret |-> r.ret,
                         before |-> fact_nomination]
    /\ UNCHANGED <<dbDims, session_state, run, ADMIN_PASSWORD, cache_data>>

RepoUpdate ==
    /\ \E nomination_id \in 1..(MaxNominations + 1),
          status_to_update \in {"approved", "refused", "pending"},
          fault \in Faults :
         LET r == update_nomination_status(fact_nomination, nomination_id,
                                           status_to_update, fault)
         IN  /\ fact_nomination' = r.rows
             /\ committed' = IF r.ret
                             THEN Committed(committed, nomination_id, status_to_update, "repo")
                             ELSE committed
             /\ call' = [op |-> "update_nomination_status", nomination_id |-> nomination_id,
                         status_to_update |-> status_to_update, fault |-> fault,
                         ret |-> r.ret, before |-> fact_nomination]
    /\ UNCHANGED <<dbDims, session_state, run, ADMIN_PASSWORD, cache_data>>

NextRepo == RepoInsert \/ RepoUpdate

SpecRepo == Init /\ [][NextRepo]_vars

----------------------------------------------------------------------------
(* The nomination page *)

\* what the text area and the file uploader can hold
Justifications == {<<>>, <<WS>>, <<WS, "ok">>}
Uploads == {None, <<"png">>}

\* st.selectbox(options=.., index=None): a value that is not among the options
\* of this run is dropped
selectbox(options, value) == IF value \in options THEN value ELSE None

Form(target, nomeador, nomeado, pilar, missao, justificativa, anexo, clicked) ==
    [op |-> "form", target |-> target, nomeador |-> nomeador, nomeado |-> nomeado,
     pilar |-> pilar, missao |-> missao, justificativa |-> justificativa, anexo |-> anexo,
     clicked |-> clicked]

\* every way of filling the form, sent to the page or straight to handle_submission
AllForms ==
    {Form(target, nomeador, nomeado, pilar, missao, justificativa, anexo, clicked) :
       target \in {"show_nomination_page", "handle_submission"},
       nomeador \in {None, Ana, Bruno}, nomeado \in {None, Ana, Bruno},
       pilar \in {None, Teamwork}, missao \in {None, Helped},
       justificativa \in Justifications, anexo \in Uploads, clicked \in BOOLEAN}

\* The user fills the widgets of the nomination form and presses (or not) the
\* submit button; the script run that follows consumes the values.
FillNominationForm(forms) ==
    /\ call = NoCall
    /\ Len(fact_nomination) < MaxNominations
    /\ \E form \in forms : call' = form
    /\ UNCHANGED <<dbDims, fact_nomination, committed, session_state, run, ADMIN_PASSWORD, cache_data>>

Submitted(form, r, fault, before) ==
    [op |-> form.target, outcome |-> r.outcome, warned |-> r.warned,
     nomeador |-> r.nomeador, nomeado |-> r.nomeado, pilar |-> r.pilar,
     missao |-> r.missao, justificativa |-> form.justificativa, anexo |-> form.anexo,
     clicked |-> form.clicked, fault |-> fault, before |-> before]

\* show_nomination_page: the two loads, the widgets, handle_submission
show_nomination_page(form, df_herois, df_missoes, rows, fault) ==
    IF df_herois = <<>> \/ df_missoes = <<>>
    THEN [rows |-> rows, outcome |-> "stopped", warned |-> FALSE, nomeador |-> None,
          nomeado |-> None, pilar |-> None, missao |-> None]
    ELSE LET nomeador == selectbox(Column(df_herois, "hero_name"), form.nomeador)
             nomeado == selectbox(NomineeOptions(df_herois, nomeador), form.nomeado)
             pilar == selectbox(Column(df_missoes, "pillar_name"), form.pilar)
             missao == selectbox(MissionOptions(df_missoes, pilar), form.missao)
             r == handle_submission(nomeador, nomeado, pilar, missao, form.justificativa,
                                    form.anexo, df_herois, df_missoes, form.clicked,
                                    rows, fault)
         IN  [rows |-> r.rows, outcome |-> r.outcome, warned |-> r.warned,
              nomeador |-> nomeador, nomeado |-> nomeado, pilar |-> pilar,
              missao |-> missao]

\* one run of pages/3
ShowNominationPage ==
    /\ call.op = "form" /\ call.target = "show_nomination_page"
    /\ \E fault_h \in Faults, fault_m \in Faults, fault \in Faults :
       \E df_herois \in load_data_from_db(HeroesQuery(dim_hero), fault_h),
          df_missoes \in load_data_from_db(MissionsQuery(dim_mission, dim_pillar), fault_m) :
         LET r == show_nomination_page(call, df_herois, df_missoes, fact_nomination, fault)
         IN  /\ fact_nomination' = r.rows
             /\ committed' = IF r.outcome = "inserted"
                             THEN Append(committed, NotWritten) ELSE committed
             /\ call' = Submitted(call, r, fault, fact_nomination)
    /\ UNCHANGED <<dbDims, session_state, run, ADMIN_PASSWORD, cache_data>>

\* handle_submission called with the values as given, also those the widgets
\* of the page never produce (nominee equal to nominator, mission without pillar)
HandleSubmissionCall ==
    /\ call.op = "form" /\ call.target = "handle_submission"
    /\ \E df_herois \in HeroesQuery(dim_hero),
          df_missoes \in MissionsQuery(dim_mission, dim_pillar),
          fault \in Faults :
         LET h == handle_submission(call.nomeador, call.nomeado, call.pilar, call.missao,
                                    call.justificativa, call.anexo, df_herois, df_missoes,
                                    call.clicked, fact_nomination, fault)
             r == [rows |-> h.rows, outcome |-> h.outcome, warned |-> h.warned,
                   nomeador |-> call.nomeador, nomeado |-> call.nomeado,
                   pilar |-> call.pilar, missao |-> call.missao]
         IN  /\ fact_nomination' = r.rows
             /\ committed' = IF r.outcome = "inserted"
                             THEN Append(committed, NotWritten) ELSE committed
             /\ call' = Submitted(call, r, fault, fact_nomination)
    /\ UNCHANGED <<dbDims, session_state, run, ADMIN_PASSWORD, cache_data>>

\* The run is over; what it did is no longer on the screen.
EndOfRun ==
    /\ call.op \notin {"none", "form"}
    /\ call' = NoCall
    /\ UNCHANGED <<dbDims, fact_nomination, committed, session_state, run, ADMIN_PASSWORD, cache_data>>

NextNominate ==
    FillNominationForm(AllForms) \/ ShowNominationPage \/ HandleSubmissionCall \/ EndOfRun

SpecNominate == Init /\ [][NextNominate]_vars

----------------------------------------------------------------------------
(* Credential gate: check_password of pages/4, 5, 6 *)

Passwords == {<<>>, <<"secret">>, <<"guess">>}

\* a widget event sent with a script run; "open" is a run without one.  text,
\* text2, reward and pillar are the values of the form the event belongs to.
FormEvent(kind, id, text, text2, reward, pillar) ==
    [kind |-> kind, id |-> id, text |-> text, text2 |-> text2, reward |-> reward,
     pillar |-> pillar]
Event(kind, id, text) == FormEvent(kind, id, text, None, 1, None)
OpenEvent == Event("open", NoId, None)
LoginEvents == {Event("login", NoId, pw) : pw \in Passwords}
LogoutEvent == Event("logout", NoId, None)

\* A gate that lets every run through.
check_password_open(authenticated, ev, correct_password) ==
    [ret |-> TRUE, authenticated |-> authenticated, ev |-> ev]

\* A gate that compares the input with whatever os.getenv returned.
check_password_any_config(authenticated, ev, correct_password) ==
    IF authenticated THEN [ret |-> TRUE, authenticated |-> TRUE, ev |-> ev]
    ELSE IF ev.kind = "login" /\ ev.text = correct_password
         THEN [ret |-> TRUE, authenticated |-> TRUE, ev |-> OpenEvent]
         ELSE [ret |-> FALSE, authenticated |-> FALSE, ev |-> ev]

\* check_password, and the rerun a successful login starts: ret is what the
\* gate returns in the run that goes on, ev the widget event that run still sees
check_password(authenticated, ev, correct_password) ==
    IF authenticated THEN [ret |-> TRUE, authenticated |-> TRUE, ev |-> ev]
    ELSE IF ev.kind = "login" /\ truthy(correct_password) /\ ev.text = correct_password
         THEN [ret |-> TRUE, authenticated |-> TRUE, ev |-> OpenEvent]
         ELSE [ret |-> FALSE, authenticated |-> FALSE, ev |-> ev]

----------------------------------------------------------------------------
(* Approval page: pages/4 *)

\* the rows of fact_nomination that survive the four inner joins
Joined(rows, heroes, missions, pillars) ==
    {i \in DOMAIN rows :
        /\ \E h \in heroes : h.hero_id = rows[i].nominator_id
        /\ \E h \in heroes : h.hero_id = rows[i].nominee_id
        /\ \E m \in missions : /\ m.mission_id = rows[i].mission_id
                               /\ \E p \in pillars : p.pillar_id = m.pillar_id}

RECURSIVE Descending(_)
\* the members of a set of integers, largest first
Descending(S) ==
    IF S = {} THEN <<>>
    ELSE LET m == CHOOSE x \in S : \A y \in S : y <= x
         IN  <<m>> \o Descending(S \ {m})

\* load_enriched_nominations: newest first, empty on a fault.  Of the selected
\* columns the frame keeps the key and the two flags; the others are only shown.
load_enriched_nominations(rows, heroes, missions, pillars, fault) ==
    IF fault # "none" THEN <<>>
    ELSE LET ids == Descending(Joined(rows, heroes, missions, pillars))
         IN  [k \in DOMAIN ids |-> [nomination_id |-> rows[ids[k]].nomination_id,
                                    approved_flag |-> rows[ids[k]].approved_flag,
                                    refuse_flag |-> rows[ids[k]].refuse_flag]]

\* A pending tab that lists every nomination of the frame.
EveryRow(df) == {df[k] : k \in DOMAIN df}

\* df_pending: approved_flag == False and refuse_flag == False
df_pending(df) ==
    {df[k] : k \in {j \in DOMAIN df : df[j].approved_flag = FALSE /\ df[j].refuse_flag = FALSE}}

ApprovalEvents(ids) ==
    {OpenEvent, LogoutEvent} \cup LoginEvents
      \cup {Event(kind, id, None) : kind \in {"approve", "refuse"}, id \in ids}

ButtonStatus(ev) == IF ev.kind = "approve" THEN "approved" ELSE "refused"

\* show_approval_page from the pending tab on: a card with its two buttons for
\* each pending row, and the status write of the button that was pressed
display_pending_cards(df, ev, rows, fault) ==
    IF /\ ev.kind \in {"approve", "refuse"}
       /\ \E row \in df_pending(df) : row.nomination_id = ev.id
    THEN LET r == update_nomination_status(rows, ev.id, ButtonStatus(ev), fault)
         IN  [rows |-> r.rows, ret |-> r.ret, wrote |-> TRUE]
    ELSE [rows |-> rows, ret |-> FALSE, wrote |-> FALSE]

\* First half of a run of pages/4: the gate, the logout button, the load.
ApprovalPageStart(s) ==
    /\ call = NoCall
    /\ run[s].pc = "idle"
    /\ \E ev \in ApprovalEvents(1..Len(fact_nomination)), fault \in {"none", "query"} :
         LET g == check_password(session_state[s].authenticated, ev, ADMIN_PASSWORD)
         IN  IF ~g.ret
             THEN /\ session_state' = [session_state EXCEPT ![s].authenticated = g.authenticated]
                  /\ UNCHANGED run
             ELSE IF g.ev.kind = "logout"
             THEN /\ session_state' = [session_state EXCEPT ![s].authenticated = FALSE]
                  /\ UNCHANGED run
             ELSE /\ session_state' = [session_state EXCEPT ![s].authenticated = g.authenticated]
                  /\ run' = [run EXCEPT ![s] =
                               [pc |-> "loaded", ev |-> g.ev, gate |-> g.ret,
                                df |-> load_enriched_nominations(fact_nomination, dim_hero,
                                                                 dim_mission, dim_pillar, fault)]]
    /\ UNCHANGED <<dbDims, fact_nomination, committed, ADMIN_PASSWORD, cache_data, call>>

\* Second half: the tabs, the cards of the pending tab, the pressed button.
ApprovalPageFinish(s) ==
    /\ call = NoCall
    /\ run[s].pc = "loaded"
    /\ \E fault \in Faults :
         LET r == display_pending_cards(run[s].df, run[s].ev, fact_nomination, fault)
             status == ButtonStatus(run[s].ev)
         IN  /\ fact_nomination' = r.rows
             /\ committed' = IF r.ret THEN Committed(committed, run[s].ev.id, status, s)
                             ELSE committed
             /\ call' = IF r.wrote
                        THEN [op |-> "update_nomination_status", page |-> "approval",
                              session |-> s, gate |-> run[s].gate,
                              authenticated |-> session_state[s].authenticated,
                              nomination_id |-> run[s].ev.id, status_to_update |-> status,
                              fault |-> fault, ret |-> r.ret, before |-> fact_nomination,
                              df |-> run[s].df]
                        ELSE call
    /\ run' = [run EXCEPT ![s] = IdleRun]
    /\ UNCHANGED <<dbDims, session_state, ADMIN_PASSWORD, cache_data>>

Next ==
    \/ \E s \in Sessions : ApprovalPageStart(s)
    \/ \E s \in Sessions : ApprovalPageFinish(s)
    \/ EndOfRun

\* two administrators on the approval page
Spec == InitSeeded /\ [][Next]_vars

----------------------------------------------------------------------------
(* Hero administration: pages/5 *)

\* execute_query(fetch=False): the statement takes `before` to `after` and is
\* committed, or is rolled back (or never sent) and False is returned
execute_query(before, after, fault) ==
    IF fault = "none" THEN [db |-> after, ret |-> TRUE] ELSE [db |-> before, ret |-> FALSE]

\* execute_query(fetch=True): an empty frame on a fault
fetch_query(results, fault) == IF fault = "none" THEN results ELSE {<<>>}

\* SELECT hero_id, hero_name, hero_team, created_at FROM dim_hero ORDER BY hero_name
load_heroes(heroes, fault) == fetch_query(OrderedBy(heroes, <<"hero_name">>), fault)

\* INSERT INTO dim_hero (hero_name, hero_team)
add_hero(heroes, seq, name, team) ==
    heroes \cup {[hero_id |-> seq + 1, hero_name |-> name, hero_team |-> team]}

\* UPDATE dim_hero SET hero_name, hero_team WHERE hero_id
update_hero(heroes, hero_id, name, team) ==
    {IF h.hero_id = hero_id THEN [h EXCEPT !.hero_name = name, !.hero_team = team] ELSE h :
       h \in heroes}

\* DELETE FROM dim_hero WHERE hero_id
delete_hero(heroes, hero_id) == {h \in heroes : h.hero_id # hero_id}

NoWrite(heroes, seq, editing) ==
    [heroes |-> heroes, seq |-> seq, editing |-> editing, op |-> "none", ret |-> FALSE]

\* show_page of pages/5 behind the gate: the edit form when editing_hero_id is
\* set, the add form and the list otherwise
show_heroes_page(editing, ev, heroes, seq, df_heroes, fault) ==
    IF editing # NoId
    THEN IF \E k \in DOMAIN df_heroes : df_heroes[k].hero_id = editing
         THEN IF ev.kind = "save_hero"
              THEN IF truthy(strip(ev.text)) /\ truthy(strip(ev.text2))
                   THEN LET q == execute_query(heroes,
                                     update_hero(heroes, editing, strip(ev.text), strip(ev.text2)),
                                     fault)
                        IN  [heroes |-> q.db, seq |-> seq,
                             editing |-> IF q.ret THEN NoId ELSE editing,
                             op |-> "update_hero", ret |-> q.ret]
                   ELSE NoWrite(heroes, seq, editing)
              ELSE IF ev.kind = "cancel_hero" THEN NoWrite(heroes, seq, NoId)
              ELSE NoWrite(heroes, seq, editing)
         ELSE NoWrite(heroes, seq, NoId)
    ELSE IF ev.kind = "add_hero"
         THEN IF truthy(strip(ev.text)) /\ truthy(strip(ev.text2))
              THEN LET q == execute_query(heroes,
                                add_hero(heroes, seq, strip(ev.text), strip(ev.text2)), fault)
                   IN  [heroes |-> q.db, seq |-> IF q.ret THEN seq + 1 ELSE seq,
                        editing |-> editing, op |-> "add_hero", ret |-> q.ret]
              ELSE NoWrite(heroes, seq, editing)
         ELSE IF ev.kind = "edit_hero" /\ \E k \in DOMAIN df_heroes : df_heroes[k].hero_id = ev.id
         THEN NoWrite(heroes, seq, ev.id)
         ELSE IF ev.kind = "delete_hero" /\ \E k \in DOMAIN df_heroes : df_heroes[k].hero_id = ev.id
         THEN LET q == execute_query(heroes, delete_hero(heroes, ev.id), fault)
              IN  [heroes |-> q.db, seq |-> seq, editing |-> editing,
                   op |-> "delete_hero", ret |-> q.ret]
         ELSE NoWrite(heroes, seq, editing)

HeroNameInputs == {<<WS>>, <<WS, Ana[1]>>}
TeamInputs == {TeamA}

HeroesEvents(ids) ==
    {OpenEvent, LogoutEvent, Event("cancel_hero", NoId, None)} \cup LoginEvents
      \cup {FormEvent(kind, NoId, name, team, 1, None) :
              kind \in {"add_hero", "save_hero"}, name \in HeroNameInputs, team \in TeamInputs}
      \cup {Event(kind, id, None) : kind \in {"edit_hero", "delete_hero"}, id \in ids}

WriteRecord(op, page, s, g, ret, fault) ==
    [op |-> op, page |-> page, session |-> s, gate |-> g.ret,
     authenticated |-> g.authenticated, ret |-> ret, fault |-> fault]

\* One run of pages/5: the logout callback, the gate, show_page.
HeroesPageRun(s) ==
    /\ call = NoCall
    /\ run[s].pc = "idle"
    /\ \E ev \in HeroesEvents(1..hero_seq), fault_load \in {"none", "query"},
          fault \in {"none", "query"} :
         LET logged_out == ev.kind = "logout"
             g == check_password(session_state[s].authenticated /\ ~logged_out, ev,
                                 ADMIN_PASSWORD)
         IN  IF ~g.ret
             THEN /\ session_state' = [session_state EXCEPT ![s].authenticated = g.authenticated]
                  /\ UNCHANGED <<dim_hero, hero_seq, admin_writes, call>>
             ELSE \E df_heroes \in load_heroes(dim_hero, fault_load) :
                    LET r == show_heroes_page(session_state[s].editing_hero_id, g.ev,
                                              dim_hero, hero_seq, df_heroes, fault)
                    IN  /\ r.op # "none" => admin_writes < MaxAdminWrites
                        /\ dim_hero' = r.heroes
                        /\ hero_seq' = r.seq
                        /\ admin_writes' = IF r.ret THEN admin_writes + 1 ELSE admin_writes
                        /\ session_state' = [session_state EXCEPT
                                               ![s].authenticated = g.authenticated,
                                               ![s].editing_hero_id = r.editing]
                        /\ call' = IF r.op # "none"
                                   THEN WriteRecord(r.op, "heroes", s, g, r.ret, fault)
                                   ELSE call
    /\ UNCHANGED <<dim_pillar, dim_mission, pillar_seq, mission_seq, fact_nomination,
                   committed, run, ADMIN_PASSWORD, cache_data>>

----------------------------------------------------------------------------
(* Pillar and mission administration: pages/6 *)

\* SELECT pillar_id, pillar_name, pillar_image FROM dim_pillar ORDER BY pillar_name
load_pillars(pillars, fault) == fetch_query(OrderedBy(pillars, <<"pillar_name">>), fault)

\* load_missions_with_pillars: dim_mission JOIN dim_pillar ORDER BY pillar_name, mission_name
load_missions_with_pillars(missions, pillars, fault) ==
    fetch_query(
        OrderedBy({[mission_id |-> m.mission_id, mission_name |-> m.mission_name,
                    mission_describe |-> m.mission_describe,
                    crystals_reward |-> m.crystals_reward,
                    pillar_id |-> p.pillar_id, pillar_name |-> p.pillar_name] :
                      <<m, p>> \in {mp \in missions \X pillars :
                                      mp[1].pillar_id = mp[2].pillar_id}},
                  <<"pillar_name", "mission_name">>),
        fault)

add_pillar(pillars, seq, name, image) ==
    pillars \cup {[pillar_id |-> seq + 1, pillar_name |-> name, pillar_image |-> image]}

update_pillar(pillars, pillar_id, name, image) ==
    {IF q.pillar_id = pillar_id THEN [q EXCEPT !.pillar_name = name, !.pillar_image = image]
     ELSE q : q \in pillars}

delete_pillar(pillars, pillar_id) == {q \in pillars : q.pillar_id # pillar_id}

add_mission(missions, seq, name, describe, reward, pillar_id) ==
    missions \cup {[mission_id |-> seq + 1, mission_name |-> name,
                    mission_describe |-> describe, crystals_reward |-> reward,
                    pillar_id |-> pillar_id]}

\* An UPDATE of dim_mission whose SET list leaves crystals_reward out.
update_mission_keeps_reward(missions, mission_id, name, describe, reward, pillar_id) ==
    {IF m.mission_id = mission_id
     THEN [m EXCEPT !.mission_name = name, !.mission_describe = describe,
                    !.pillar_id = pillar_id]
     ELSE m : m \in missions}
update_mission(missions, mission_id, name, describe, reward, pillar_id) ==
    {IF m.mission_id = mission_id
     THEN [m EXCEPT !.mission_name = name, !.mission_describe = describe,
                    !.crystals_reward = reward, !.pillar_id = pillar_id]
     ELSE m : m \in missions}

delete_mission(missions, mission_id) == {m \in missions : m.mission_id # mission_id}

\* pillar_map = {name: id for id, name in zip(..)}: the last row of a name wins
pillar_map(df_pillars, name) ==
    LET k == CHOOSE k \in DOMAIN df_pillars :
                 /\ df_pillars[k].pillar_name = name
                 /\ \A j \in DOMAIN df_pillars :
                        df_pillars[j].pillar_name = name => j <= k
    IN  df_pillars[k].pillar_id

\* st.selectbox(options, index=..): the chosen option, the default one if the
\* value sent is not an option of this run
selectbox_default(options, value, default) == IF value \in options THEN value ELSE default

Row(df, col, id) == df[CHOOSE k \in DOMAIN df : df[k][col] = id]
HasRow(df, col, id) == \E k \in DOMAIN df : df[k][col] = id

Page6(pillars, pseq, missions, mseq, editing_p, editing_m, op, ret, raised) ==
    [pillars |-> pillars, pseq |-> pseq, missions |-> missions, mseq |-> mseq,
     editing_p |-> editing_p, editing_m |-> editing_m, op |-> op, ret |-> ret,
     raised |-> raised]

\* tab "Gerenciar Pilares": edit_pillar_form or manage_pillars
pillars_tab(editing_p, editing_m, ev, pillars, pseq, missions, mseq, df_pillars, fault) ==
    LET same == Page6(pillars, pseq, missions, mseq, editing_p, editing_m, "none", FALSE, FALSE)
    IN
    IF editing_p # NoId
    THEN IF ~HasRow(df_pillars, "pillar_id", editing_p)
         THEN [same EXCEPT !.raised = TRUE]
         ELSE IF ev.kind = "save_pillar"
              THEN LET q == execute_query(pillars,
                                update_pillar(pillars, editing_p, strip(ev.text),
                                              Row(df_pillars, "pillar_id", editing_p).pillar_image),
                                fault)
                   IN  [same EXCEPT !.pillars = q.db, !.op = "update_pillar", !.ret = q.ret,
                                    !.editing_p = IF q.ret THEN NoId ELSE editing_p]
              ELSE IF ev.kind = "cancel_pillar" THEN [same EXCEPT !.editing_p = NoId]
              ELSE same
    ELSE IF ev.kind = "add_pillar"
         THEN IF truthy(strip(ev.text))
              THEN LET q == execute_query(pillars, add_pillar(pillars, pseq, strip(ev.text), None),
                                          fault)
                   IN  [same EXCEPT !.pillars = q.db, !.op = "add_pillar", !.ret = q.ret,
                                    !.pseq = IF q.ret THEN pseq + 1 ELSE pseq]
              ELSE same
         ELSE IF ev.kind = "edit_pillar" /\ HasRow(df_pillars, "pillar_id", ev.id)
         THEN [same EXCEPT !.editing_p = ev.id]
         ELSE IF ev.kind = "delete_pillar" /\ HasRow(df_pillars, "pillar_id", ev.id)
         THEN LET q == execute_query(pillars, delete_pillar(pillars, ev.id), fault)
              IN  [same EXCEPT !.pillars = q.db, !.op = "delete_pillar", !.ret = q.ret]
         ELSE same

\* tab "Gerenciar Missões": edit_mission_form or manage_missions
missions_tab(editing_p, editing_m, ev, pillars, pseq, missions, mseq, df_pillars, df_missions, fault) ==
    LET same == Page6(pillars, pseq, missions, mseq, editing_p, editing_m, "none", FALSE, FALSE)
        names == Column(df_pillars, "pillar_name")
    IN
    IF editing_m # NoId
    THEN IF ~HasRow(df_missions, "mission_id", editing_m)
         THEN [same EXCEPT !.raised = TRUE]
         ELSE IF ev.kind = "save_mission"
              THEN IF names = {}
                   THEN [same EXCEPT !.raised = TRUE]
                   ELSE LET current == Row(df_missions, "mission_id", editing_m).pillar_name
                            default == IF current \in names THEN current
                                       ELSE df_pillars[1].pillar_name
                            selected == selectbox_default(names, ev.pillar, default)
                            q == execute_query(missions,
                                     update_mission(missions, editing_m, strip(ev.text),
                                                    strip(ev.text2), ev.reward,
                                                    pillar_map(df_pillars, selected)),
                                     fault)
                        IN  [same EXCEPT !.missions = q.db, !.op = "update_mission",
                                         !.ret = q.ret,
                                         !.editing_m = IF q.ret THEN NoId ELSE editing_m]
              ELSE IF ev.kind = "cancel_mission" THEN [same EXCEPT !.editing_m = NoId]
              ELSE same
    ELSE IF df_pillars = <<>> THEN same
         ELSE IF ev.kind = "add_mission"
         THEN LET selected == selectbox_default(names, ev.pillar, df_pillars[1].pillar_name)
              IN  IF truthy(strip(ev.text)) /\ truthy(strip(ev.text2)) /\ truthy(selected)
                  THEN LET q == execute_query(missions,
                                    add_mission(missions, mseq, strip(ev.text), strip(ev.text2),
                                                ev.reward, pillar_map(df_pillars, selected)),
                                    fault)
                       IN  [same EXCEPT !.missions = q.db, !.op = "add_mission", !.ret = q.ret,
                                        !.mseq = IF q.ret THEN mseq + 1 ELSE mseq]
                  ELSE same
         ELSE IF ev.kind = "edit_mission" /\ HasRow(df_missions, "mission_id", ev.id)
         THEN [same EXCEPT !.editing_m = ev.id]
         ELSE IF ev.kind = "delete_mission" /\ HasRow(df_missions, "mission_id", ev.id)
         THEN LET q == execute_query(missions, delete_mission(missions, ev.id), fault)
              IN  [same EXCEPT !.missions = q.db, !.op = "delete_mission", !.ret = q.ret]
         ELSE same

\* show_page of pages/6 behind the gate: the first tab, then (unless the first
\* raised or restarted the run) the second
show_missions_page(editing_p, editing_m, ev, pillars, pseq, missions, mseq, df_pillars, df_missions, fault) ==
    LET t1 == pillars_tab(editing_p, editing_m, ev, pillars, pseq, missions, mseq,
                          df_pillars, fault)
        restarted == \/ t1.op # "none" /\ t1.ret
                     \/ ev.kind = "cancel_pillar" /\ editing_p # NoId
        t2 == missions_tab(t1.editing_p, editing_m, ev, pillars, pseq, missions, mseq,
                           df_pillars, df_missions, fault)
    IN  IF t1.raised \/ restarted THEN t1
        ELSE IF t1.op # "none" THEN [t2 EXCEPT !.op = t1.op, !.ret = t1.ret]
        ELSE t2

PillarNameInputs == {<<WS>>, Courage}
MissionNameInputs == {<<WS>>, Helped}
Rewards == {5}

MissionsEvents(pillar_ids, mission_ids) ==
    {OpenEvent, LogoutEvent, Event("cancel_pillar", NoId, None),
     Event("cancel_mission", NoId, None)} \cup LoginEvents
      \cup {Event(kind, NoId, name) :
              kind \in {"add_pillar", "save_pillar"}, name \in PillarNameInputs}
      \cup {Event(kind, id, None) : kind \in {"edit_pillar", "delete_pillar"}, id \in pillar_ids}
      \cup {FormEvent(kind, NoId, name, Described, reward, pillar) :
              kind \in {"add_mission", "save_mission"}, name \in MissionNameInputs,
              reward \in Rewards, pillar \in {Courage}}
      \cup {Event(kind, id, None) : kind \in {"edit_mission", "delete_mission"}, id \in mission_ids}

\* One run of pages/6: the logout callback, the gate, show_page.
MissionsPageRun(s) ==
    /\ call = NoCall
    /\ run[s].pc = "idle"
    /\ \E ev \in MissionsEvents(1..pillar_seq, 1..mission_seq),
          fault_p \in {"none", "query"}, fault_m \in {"none", "query"},
          fault \in {"none", "query"} :
         LET logged_out == ev.kind = "logout"
             g == check_password(session_state[s].authenticated /\ ~logged_out, ev,
                                 ADMIN_PASSWORD)
         IN  IF ~g.ret
             THEN /\ session_state' = [session_state EXCEPT ![s].authenticated = g.authenticated]
                  /\ UNCHANGED <<dim_pillar, pillar_seq, dim_mission, mission_seq,
                                 admin_writes, call>>
             ELSE \E df_pillars \in load_pillars(dim_pillar, fault_p),
                     df_missions \in load_missions_with_pillars(dim_mission, dim_pillar, fault_m) :
                    LET r == show_missions_page(session_state[s].editing_pillar_id,
                                                session_state[s].editing_mission_id, g.ev,
                                                dim_pillar, pillar_seq, dim_mission, mission_seq,
                                                df_pillars, df_missions, fault)
                    IN  /\ r.op # "none" => admin_writes < MaxAdminWrites
                        /\ dim_pillar' = r.pillars
                        /\ pillar_seq' = r.pseq
                        /\ dim_mission' = r.missions
                        /\ mission_seq' = r.mseq
                        /\ admin_writes' = IF r.ret THEN admin_writes + 1 ELSE admin_writes
                        /\ session_state' = [session_state EXCEPT
                                               ![s].authenticated = g.authenticated,
                                               ![s].editing_pillar_id = r.editing_p,
                                               ![s].editing_mission_id = r.editing_m]
                        /\ call' = IF r.op # "none"
                                   THEN WriteRecord(r.op, "missions", s, g, r.ret, fault)
                                   ELSE IF r.raised
                                   THEN WriteRecord("IndexError", "missions", s, g, FALSE, fault)
                                   ELSE call
    /\ UNCHANGED <<dim_hero, hero_seq, fact_nomination, committed, run, ADMIN_PASSWORD, cache_data>>

----------------------------------------------------------------------------
(* The three gated pages in one browser session *)

NextApp ==
    \/ ApprovalPageStart("s1")
    \/ ApprovalPageFinish("s1")
    \/ HeroesPageRun("s1")
    \/ MissionsPageRun("s1")
    \/ EndOfRun

SpecApp == InitApp /\ [][NextApp]_vars

----------------------------------------------------------------------------
(* Dashboard: pages/1.  The frame and the pandas operations it goes through *)

Volunteered == <<"Volunteered">>
\* U+200B, the zero-width space nominee nodes are tagged with
ZWSP == "<U+200B>"

\* A SELECT with WHERE fn.approved_flag: only approved nominations are read.
DashboardQueryApprovedOnly(rows, heroes, missions, pillars) ==
    LET ids == Descending({i \in Joined(rows, heroes, missions, pillars) :
                              rows[i].approved_flag})
    IN  [k \in DOMAIN ids |->
           LET fn == rows[ids[k]]
               nominee == CHOOSE h \in heroes : h.hero_id = fn.nominee_id
               nominator == CHOOSE h \in heroes : h.hero_id = fn.nominator_id
               dm == CHOOSE m \in missions : m.mission_id = fn.mission_id
               dp == CHOOSE p \in pillars : p.pillar_id = dm.pillar_id
           IN  [hero_name |-> nominee.hero_name, hero_team |-> nominee.hero_team,
                nominator_name |-> nominator.hero_name,
                mission_name |-> dm.mission_name,
                crystals_reward |-> dm.crystals_reward,
                pillar_name |-> dp.pillar_name]]

\* the SELECT of load_dashboard_data: one row per nomination that survives the
\* four inner joins, newest first
DashboardQuery(rows, heroes, missions, pillars) ==
    LET ids == Descending(Joined(rows, heroes, missions, pillars))
    IN  [k \in DOMAIN ids |->
           LET fn == rows[ids[k]]
               nominee == CHOOSE h \in heroes : h.hero_id = fn.nominee_id
               nominator == CHOOSE h \in heroes : h.hero_id = fn.nominator_id
               dm == CHOOSE m \in missions : m.mission_id = fn.mission_id
               dp == CHOOSE p \in pillars : p.pillar_id = dm.pillar_id
           IN  [hero_name |-> nominee.hero_name, hero_team |-> nominee.hero_team,
                nominator_name |-> nominator.hero_name,
                mission_name |-> dm.mission_name,
                crystals_reward |-> dm.crystals_reward,
                pillar_name |-> dp.pillar_name]]

\* A load without the @st.cache_data decorator: every call runs the query.
load_dashboard_data_uncached(cached, rows, heroes, missions, pillars, fault) ==
    LET df == IF fault = "none" THEN DashboardQuery(rows, heroes, missions, pillars)
              ELSE <<>>
    IN  [df |-> df, cache |-> [kept |-> TRUE, df |-> df]]

\* load_dashboard_data under @st.cache_data(ttl="5m"): the kept value while
\* there is one; otherwise the query's rows, or an empty frame on a fault, and
\* what was returned is kept
load_dashboard_data(cached, rows, heroes, missions, pillars, fault) ==
    IF cached.kept THEN [df |-> cached.df, cache |-> cached]
    ELSE LET df == IF fault = "none" THEN DashboardQuery(rows, heroes, missions, pillars)
                   ELSE <<>>
         IN  [df |-> df, cache |-> [kept |-> TRUE, df |-> df]]

RECURSIVE SeqSum(_)
\* Series.sum()
SeqSum(s) == IF s = <<>> THEN 0 ELSE Head(s) + SeqSum(Tail(s))

\* df['crystals_reward'].sum()
Total(df) == SeqSum([i \in DOMAIN df |-> df[i].crystals_reward])

\* the values of the columns `by` in row r
KeyOf(r, by) == [k \in DOMAIN by |-> r[by[k]]]

\* A grouping that keeps the reward of the first row of each key, as
\* groupby(by)['crystals_reward'].first() would.
groupby_first(df, by) ==
    LET keys == {KeyOf(df[i], by) : i \in DOMAIN df}
        First(key) == CHOOSE i \in DOMAIN df :
                         /\ KeyOf(df[i], by) = key
                         /\ \A j \in DOMAIN df : KeyOf(df[j], by) = key => i <= j
        GroupRow(key) ==
            [c \in {by[k] : k \in DOMAIN by} \cup {"crystals_reward"} |->
                IF c = "crystals_reward" THEN df[First(key)].crystals_reward
                ELSE key[CHOOSE k \in DOMAIN by : by[k] = c]]
    IN  CHOOSE g \in OrderedBy({GroupRow(key) : key \in keys}, by) : TRUE

\* A grouping that gives each key the running total of the keys up to it, as
\* groupby(by)['crystals_reward'].sum().cumsum() would.
groupby_cumsum(df, by) ==
    LET keys == {KeyOf(df[i], by) : i \in DOMAIN df}
        KeyRow(key) == [c \in {by[k] : k \in DOMAIN by} |->
                           key[CHOOSE k \in DOMAIN by : by[k] = c]]
        ordered == CHOOSE g \in OrderedBy({KeyRow(key) : key \in keys}, by) : TRUE
        UpTo(k) == {KeyOf(ordered[j], by) : j \in 1..k}
    IN  [k \in DOMAIN ordered |->
           [c \in {by[j] : j \in DOMAIN by} \cup {"crystals_reward"} |->
               IF c = "crystals_reward"
               THEN SeqSum([i \in DOMAIN df |->
                              IF KeyOf(df[i], by) \in UpTo(k)
                              THEN df[i].crystals_reward ELSE 0])
               ELSE ordered[k][c]]]

\* df.groupby(by)['crystals_reward'].sum().reset_index(): one row per key with
\* the sum of its rows, in the order of the sorted keys
groupby_sum(df, by) ==
    LET keys == {KeyOf(df[i], by) : i \in DOMAIN df}
        InGroup(key) == {i \in DOMAIN df : KeyOf(df[i], by) = key}
        GroupRow(key) ==
            [c \in {by[k] : k \in DOMAIN by} \cup {"crystals_reward"} |->
                IF c = "crystals_reward"
                THEN SeqSum([i \in DOMAIN df |->
                               IF i \in InGroup(key) THEN df[i].crystals_reward ELSE 0])
                ELSE key[CHOOSE k \in DOMAIN by : by[k] = c]]
    IN  CHOOSE g \in OrderedBy({GroupRow(key) : key \in keys}, by) : TRUE

\* sort_values(ascending=False) with the default kind='quicksort', which is
\* not stable: every arrangement with non-increasing sums
sort_values_descending(g) ==
    {s \in [DOMAIN g -> {g[i] : i \in DOMAIN g}] :
        /\ \A i, j \in DOMAIN s : i # j => s[i] # s[j]
        /\ \A i, j \in DOMAIN s : i < j => s[i].crystals_reward >= s[j].crystals_reward}

\* A selection of the largest sums that takes n = 0 to mean "no limit".
nlargest_zero_unlimited(g, n) ==
    IF g = <<>> THEN <<>>
    ELSE LET p == CHOOSE f \in [DOMAIN g -> DOMAIN g] :
                    /\ \A i, j \in DOMAIN g : i # j => f[i] # f[j]
                    /\ \A i, j \in DOMAIN g : i < j =>
                          \/ g[f[i]].crystals_reward > g[f[j]].crystals_reward
                          \/ /\ g[f[i]].crystals_reward = g[f[j]].crystals_reward
                             /\ f[i] < f[j]
         IN  [k \in 1..(IF n > 0 /\ n < Len(g) THEN n ELSE Len(g)) |-> g[p[k]]]

\* Series.nlargest(n) with keep='first': the n largest sums, largest first,
\* equal sums in the order they have in g; nothing when n <= 0
nlargest(g, n) ==
    IF n <= 0 \/ g = <<>> THEN <<>>
    ELSE LET p == CHOOSE f \in [DOMAIN g -> DOMAIN g] :
                    /\ \A i, j \in DOMAIN g : i # j => f[i] # f[j]
                    /\ \A i, j \in DOMAIN g : i < j =>
                          \/ g[f[i]].crystals_reward > g[f[j]].crystals_reward
                          \/ /\ g[f[i]].crystals_reward = g[f[j]].crystals_reward
                             /\ f[i] < f[j]
         IN  [k \in 1..(IF n < Len(g) THEN n ELSE Len(g)) |-> g[p[k]]]

\* A KPI summary that counts the heroes who nominated instead of the nominees.
show_kpi_cards_nominators(df) ==
    [total_heroes |-> Cardinality({df[i].nominator_name : i \in DOMAIN df}),
     total_crystals |-> Total(df),
     total_nominations |-> Len(df)]

\* show_kpi_cards: df['hero_name'].nunique(), int(df['crystals_reward'].sum()), len(df)
show_kpi_cards(df) ==
    [total_heroes |-> Cardinality({df[i].hero_name : i \in DOMAIN df}),
     total_crystals |-> Total(df),
     total_nominations |-> Len(df)]

\* show_pillar_distribution_chart: the slices of the pie, one per pillar with
\* the sum of its rewards
show_pillar_distribution_chart(df) ==
    IF df = <<>> THEN <<>> ELSE groupby_sum(df, <<"pillar_name">>)

\* A ranking that sorts the records by reward without grouping them.
show_hero_ranking_ungrouped(df) ==
    IF df = <<>> THEN {<<>>}
    ELSE sort_values_descending(
             [i \in DOMAIN df |->
                [hero_name |-> df[i].hero_name, hero_team |-> df[i].hero_team,
                 crystals_reward |-> df[i].crystals_reward]])

\* show_hero_ranking: the rankings the table may show; none for an empty frame
show_hero_ranking(df) ==
    IF df = <<>> THEN {<<>>}
    ELSE sort_values_descending(groupby_sum(df, <<"hero_name", "hero_team">>))

\* the values of one column of a frame, as a list and as a set
ToList(g, col) == [k \in DOMAIN g |-> g[k][col]]
Values(g, col) == {g[k][col] : k \in DOMAIN g}

\* unique_nominees: the first nominee keeps its name, the i-th (from 0) gets
\* i + 1 zero-width spaces appended
unique_nominees(nominees) ==
    [k \in DOMAIN nominees |->
        IF k = 1 THEN nominees[k] ELSE nominees[k] \o [j \in 1..k |-> ZWSP]]

\* node_map = {node: i for i, node in enumerate(all_nodes)}: the index (from 0)
\* of the last occurrence of the node
node_map(all_nodes, node) ==
    (CHOOSE k \in DOMAIN all_nodes :
        all_nodes[k] = node /\ \A j \in DOMAIN all_nodes : j > k => all_nodes[j] # node) - 1

\* "Nenhum fluxo de dados" / "Nao ha dados": no figure is drawn
NoDiagram ==
    [shown |-> FALSE, nominators |-> <<>>, pillars |-> <<>>, nominees |-> <<>>,
     all_nodes |-> <<>>, links |-> <<>>, display_labels |-> <<>>, tiers |-> <<>>]

\* show_sankey_diagram from the node lists on: the links of the two layers,
\* and for each node its column and its label
sankey_figure(nominator_pillar_filtered, pillar_nominee_filtered, nominators, pillars, nominees) ==
    LET tagged == unique_nominees(nominees)
        all_nodes == nominators \o pillars \o tagged
        original(uname) == nominees[CHOOSE k \in DOMAIN tagged : tagged[k] = uname]
        unique(oname) == tagged[CHOOSE k \in DOMAIN nominees :
                                  nominees[k] = oname
                                  /\ \A j \in DOMAIN nominees : j < k => nominees[j] # oname]
        links1 == [k \in DOMAIN nominator_pillar_filtered |->
                     LET row == nominator_pillar_filtered[k]
                     IN  [layer |-> "nominator-pillar",
                          from |-> row.nominator_name, to |-> row.pillar_name,
                          source |-> node_map(all_nodes, row.nominator_name),
                          target |-> node_map(all_nodes, row.pillar_name),
                          value |-> row.crystals_reward]]
        links2 == [k \in DOMAIN pillar_nominee_filtered |->
                     LET row == pillar_nominee_filtered[k]
                     IN  [layer |-> "pillar-nominee",
                          from |-> row.pillar_name, to |-> row.hero_name,
                          source |-> node_map(all_nodes, row.pillar_name),
                          target |-> node_map(all_nodes, unique(row.hero_name)),
                          value |-> row.crystals_reward]]
        InList(x, l) == \E k \in DOMAIN l : l[k] = x
        tier(node) == IF InList(node, nominators) THEN "nominator"
                      ELSE IF InList(node, pillars) THEN "pillar"
                      ELSE "nominee"
    IN  IF links1 \o links2 = <<>> THEN NoDiagram
        ELSE [shown |-> TRUE, nominators |-> nominators, pillars |-> pillars,
              nominees |-> nominees, all_nodes |-> all_nodes,
              links |-> links1 \o links2,
              display_labels |-> [k \in DOMAIN all_nodes |->
                                    IF tier(all_nodes[k]) = "nominee"
                                    THEN original(all_nodes[k]) ELSE all_nodes[k]],
              tiers |-> [k \in DOMAIN all_nodes |-> tier(all_nodes[k])]]

\* show_sankey_diagram: the figures it may draw (the pillars with equal sums
\* come in either order)
show_sankey_diagram(df, top_n) ==
    IF df = <<>> THEN {NoDiagram}
    ELSE LET nominator_pillar == groupby_sum(df, <<"nominator_name", "pillar_name">>)
             pillar_nominee == groupby_sum(df, <<"pillar_name", "hero_name">>)
             nominators == ToList(nlargest(groupby_sum(df, <<"nominator_name">>), top_n),
                                  "nominator_name")
             nominees == ToList(nlargest(groupby_sum(df, <<"hero_name">>), top_n),
                                "hero_name")
             IsTopNominator(r) == \E k \in DOMAIN nominators : nominators[k] = r.nominator_name
             IsTopNominee(r) == \E k \in DOMAIN nominees : nominees[k] = r.hero_name
             nominator_pillar_filtered == SelectSeq(nominator_pillar, IsTopNominator)
             pillar_nominee_top == SelectSeq(pillar_nominee, IsTopNominee)
             pillar_orders ==
                 IF nominator_pillar_filtered # <<>>
                 THEN {ToList(ps, "pillar_name") :
                         ps \in sort_values_descending(
                                  groupby_sum(nominator_pillar_filtered, <<"pillar_name">>))}
                 ELSE {<<>>}
         IN  {LET IsKeptPillar(r) == \E k \in DOMAIN pillars : pillars[k] = r.pillar_name
              IN  sankey_figure(nominator_pillar_filtered,
                                SelectSeq(pillar_nominee_top, IsKeptPillar),
                                nominators, pillars, nominees) :
                pillars \in pillar_orders}

\* the default of top_n, and what show_page passes
top_n_default == 10

\* the heroes, pillars and missions the dashboard is opened on
DashHeroes == SeedHeroes \cup {[hero_id |-> 3, hero_name |-> Carla, hero_team |-> TeamA]}
DashPillars == SeedPillars \cup {[pillar_id |-> 2, pillar_name |-> Courage, pillar_image |-> None]}
DashMissions ==
    SeedMissions \cup {[mission_id |-> 2, mission_name |-> Volunteered,
                        mission_describe |-> Described, crystals_reward |-> 5, pillar_id |-> 2]}

\* who nominated whom, on which mission, in a stored nomination
DashChoices ==
    {c \in [nominator_id : 1..3, nominee_id : 1..3, mission_id : 1..2] :
        c.nominator_id # c.nominee_id /\ c.nominator_id # 3}

\* the dashboard is opened on a store that holds up to MaxNominations pending
\* nominations entered through the nomination page
InitDash ==
    /\ dim_hero = DashHeroes
    /\ dim_pillar = DashPillars
    /\ dim_mission = DashMissions
    /\ hero_seq = 3
    /\ pillar_seq = 2
    /\ mission_seq = 2
    /\ \E n \in 0..MaxNominations : \E f \in [1..n -> DashChoices] :
         /\ fact_nomination =
              [i \in 1..n |-> [nomination_id |-> i, nominator_id |-> f[i].nominator_id,
                               nominee_id |-> f[i].nominee_id, mission_id |-> f[i].mission_id,
                               justification |-> <<"ok">>, image |-> None,
                               approved_flag |-> DefaultFlag, refuse_flag |-> DefaultFlag]]
         /\ committed = [i \in 1..n |-> NotWritten]
    /\ session_state = [s \in Sessions |-> FreshSession]
    /\ run = [s \in Sessions |-> IdleRun]
    /\ ADMIN_PASSWORD = <<"secret">>
    /\ call = NoCall
    /\ admin_writes = 0
    /\ cache_data = NoCache

\* what the run showed: the frame the components were given and what each drew
Shown(op, df, top_n, kpi, ranking, sankey) ==
    [op |-> op, df |-> df, top_n |-> top_n, kpi |-> kpi, ranking |-> ranking,
     sankey |-> sankey]

\* the three filters of show_page: a period (a stretch of the frame, which is
\* ordered by date), the heroes and the pillars; an empty selection filters nothing
df_filtered(df_original, lo, hi, selected_heroes, selected_pillars) ==
    LET InPeriod == SubSeq(df_original, lo, hi)
        IsSelectedHero(r) == selected_heroes = {} \/ r.hero_name \in selected_heroes
        IsSelectedPillar(r) == selected_pillars = {} \/ r.pillar_name \in selected_pillars
    IN  SelectSeq(SelectSeq(InPeriod, IsSelectedHero), IsSelectedPillar)

\* what a multiselect of the filters holds: nothing (which filters as the
\* default, every option, does), or one of its options
Selections(options) == {{}} \cup {{o} : o \in options}

\* what a run of pages/1 did: what load_dashboard_data returned and under
\* which fault, whether the page stopped at a warning, and what was drawn
PageShown(loaded, fault, outcome, df, kpi, ranking, sankey) ==
    [op |-> "show_page", loaded |-> loaded, fault |-> fault, outcome |-> outcome,
     df |-> df, top_n |-> top_n_default, kpi |-> kpi, ranking |-> ranking,
     sankey |-> sankey]

\* the run stopped at a warning: nothing was drawn
PageWarned(loaded, fault, outcome) ==
    PageShown(loaded, fault, outcome, <<>>, show_kpi_cards(<<>>), <<>>, NoDiagram)

\* One run of pages/1: the load, the filters, the components.
ShowDashboardPage ==
    /\ call = NoCall
    /\ \E fault \in Faults :
         LET l == load_dashboard_data(cache_data, fact_nomination, dim_hero, dim_mission,
                                      dim_pillar, fault)
         IN  /\ cache_data' = l.cache
             /\ IF l.df = <<>>
                THEN call' = PageWarned(l.df, fault, "no nominations")
                ELSE \E lo \in DOMAIN l.df, hi \in DOMAIN l.df,
                        selected_heroes \in Selections(Values(l.df, "hero_name")),
                        selected_pillars \in Selections(Values(l.df, "pillar_name")) :
                       LET df == df_filtered(l.df, lo, hi, selected_heroes, selected_pillars)
                       IN  /\ lo <= hi
                           /\ IF df = <<>>
                              THEN call' = PageWarned(l.df, fault, "no match")
                              ELSE \E ranking \in show_hero_ranking(df),
                                      sankey \in show_sankey_diagram(df, top_n_default) :
                                     call' = PageShown(l.df, fault, "shown", df,
                                                       show_kpi_cards(df), ranking, sankey)
    /\ UNCHANGED <<dbDims, fact_nomination, committed, session_state, run, ADMIN_PASSWORD>>

\* show_kpi_cards, show_hero_ranking and show_sankey_diagram called on what the
\* query returns, an empty result included, with any top_n
AggregationCall ==
    /\ call = NoCall
    /\ \E top_n \in 0..MaxTopN :
         LET df == DashboardQuery(fact_nomination, dim_hero, dim_mission, dim_pillar)
         IN  \E ranking \in show_hero_ranking(df), sankey \in show_sankey_diagram(df, top_n) :
               call' = Shown("aggregation", df, top_n, show_kpi_cards(df), ranking, sankey)
    /\ UNCHANGED <<dbDims, fact_nomination, committed, session_state, run, ADMIN_PASSWORD,
                   cache_data>>

\* what the reward inputs of pages/6 are set to (min_value=1)
RewardInputs == {1, 10}

\* update_mission called with a new reward, the other fields as they are
UpdateMissionCall ==
    /\ call = NoCall
    /\ admin_writes < MaxAdminWrites
    /\ \E m \in dim_mission, reward \in RewardInputs, fault \in {"none", "query"} :
         LET q == execute_query(dim_mission,
                                update_mission(dim_mission, m.mission_id, m.mission_name,
                                               m.mission_describe, reward, m.pillar_id),
                                fault)
         IN  /\ dim_mission' = q.db
             /\ admin_writes' = IF q.ret THEN admin_writes + 1 ELSE admin_writes
             /\ call' = [op |-> "update_mission", mission_id |-> m.mission_id,
                         reward |-> reward, ret |-> q.ret, fault |-> fault]
    /\ UNCHANGED <<dim_hero, dim_pillar, hero_seq, pillar_seq, mission_seq, fact_nomination,
                   committed, session_state, run, ADMIN_PASSWORD, cache_data>>

\* Five minutes have passed since load_dashboard_data ran: its entry is dropped.
CacheExpires ==
    /\ call = NoCall
    /\ cache_data.kept
    /\ cache_data' = NoCache
    /\ UNCHANGED <<dbDims, fact_nomination, committed, session_state, run, ADMIN_PASSWORD,
                   call>>

\* the aggregations of the dashboard over any store, between changes of reward
NextDash == AggregationCall \/ UpdateMissionCall \/ EndOfRun

SpecDash == InitDash /\ [][NextDash]_vars

\* the dashboard page with its cached load, between changes of reward
NextDashPage ==
    ShowDashboardPage \/ RepoInsert \/ UpdateMissionCall \/ CacheExpires \/ EndOfRun

SpecDashPage == Init /\ [][NextDashPage]_vars

\* the aggregations of the dashboard between inserts and status writes
NextDashStatus == RepoInsert \/ RepoUpdate \/ AggregationCall \/ EndOfRun

SpecDashStatus == Init /\ [][NextDashStatus]_vars

----------------------------------------------------------------------------
(* Properties *)

IsUpdate == call.op = "update_nomination_status"
IsSubmission == call.op \in {"show_nomination_page", "handle_submission"}

\* C1: after any sequence of inserts and status writes (approve or refuse, in
\* any order, on any nomination) no nomination has approved_flag and
\* refuse_flag both true: each one is pending, approved or refused.
C1_FlagsExclusive ==
    \A i \in DOMAIN fact_nomination :
        /\ ~(fact_nomination[i].approved_flag /\ fact_nomination[i].refuse_flag)
        /\ Status(fact_nomination[i]) \in {"pending", "approved", "refused"}

\* a refused nomination has just been approved, next to another nomination
C1_Witness ==
    /\ IsUpdate /\ call.ret
    /\ Len(fact_nomination) >= 2
    /\ \E i \in DOMAIN call.before :
         /\ i = call.nomination_id
         /\ Status(call.before[i]) = "refused"
         /\ Status(fact_nomination[i]) = "approved"

\* the submission as the claim describes a valid one: both heroes exist and
\* differ, the mission exists in the chosen pillar, the justification is not blank
ValidSubmission ==
    /\ \E h \in dim_hero : h.hero_name = call.nomeador
    /\ \E h \in dim_hero : h.hero_name = call.nomeado
    /\ call.nomeador # call.nomeado
    /\ \E m \in dim_mission, p \in dim_pillar :
         /\ m.pillar_id = p.pillar_id
         /\ m.mission_name = call.missao
         /\ p.pillar_name = call.pilar
    /\ strip(call.justificativa) # <<>>

\* C2: a valid submission sent from the nomination page, with the store
\* working, succeeds, adds exactly one nomination and leaves the earlier ones
\* alone; the new nomination is pending.
C2_ValidCreateIsPending ==
    (call.op = "show_nomination_page" /\ call.clicked /\ ValidSubmission
       /\ call.fault = "none")
    => /\ call.outcome = "inserted"
       /\ Len(fact_nomination) = Len(call.before) + 1
       /\ SubSeq(fact_nomination, 1, Len(call.before)) = call.before
       /\ Status(fact_nomination[Len(fact_nomination)]) = "pending"

\* a second nomination has just been created from the page
C2_Witness ==
    /\ call.op = "show_nomination_page" /\ call.clicked /\ ValidSubmission
    /\ call.fault = "none"
    /\ Len(call.before) = 1
    /\ Len(fact_nomination) = 2

\* C3: a submission whose nominator and nominee are the same hero is warned
\* about and inserts nothing, whatever the mission, justification and evidence.
C3_SelfNominationRejected ==
    (IsSubmission /\ truthy(call.nomeador) /\ call.nomeador = call.nomeado)
    => /\ call.warned
       /\ call.outcome = "disabled"
       /\ fact_nomination = call.before

\* a self-nomination with every other field in order was submitted
C3_Witness ==
    /\ call.op = "handle_submission"
    /\ call.nomeador = Ana /\ call.nomeado = Ana
    /\ call.pilar = Teamwork /\ call.missao = Helped
    /\ strip(call.justificativa) # <<>>
    /\ call.clicked /\ call.fault = "none"
    /\ call.outcome = "disabled"

MissingField ==
    \/ ~truthy(call.nomeador)
    \/ ~truthy(call.nomeado)
    \/ ~truthy(call.pilar)
    \/ ~truthy(call.missao)
    \/ strip(call.justificativa) = <<>>

\* C4: a submission with a missing nominator, nominee, pillar or mission, or
\* with a justification that is blank after trimming, inserts nothing; no
\* stored nomination has a blank justification.
C4_MissingFieldRejected ==
    /\ (IsSubmission /\ MissingField)
       => /\ call.outcome \in {"disabled", "stopped"}
          /\ fact_nomination = call.before
    /\ \A i \in DOMAIN fact_nomination :
          strip(fact_nomination[i].justification) # <<>>

\* a submission whose only defect is a whitespace justification was sent from the page
C4_Witness ==
    /\ call.op = "show_nomination_page"
    /\ call.nomeador = Ana /\ call.nomeado = Bruno
    /\ call.pilar = Teamwork /\ call.missao = Helped
    /\ call.justificativa = <<WS>>
    /\ call.clicked /\ call.fault = "none"
    /\ call.outcome = "disabled"

\* C5: a status write on an existing nomination, with the store working,
\* leaves its status equal to the target whatever it was before: approved
\* and not refused after approve, refused and not approved after refuse.
C5_TransitionSetsTarget ==
    (IsUpdate /\ call.nomination_id \in NominationIds(call.before)
       /\ call.status_to_update \in {"approved", "refused"} /\ call.fault = "none")
    => /\ call.ret
       /\ Status(fact_nomination[call.nomination_id]) = call.status_to_update

\* approve followed by refuse: an approved nomination has just been refused
C5_Witness ==
    /\ IsUpdate /\ call.ret /\ call.status_to_update = "refused"
    /\ call.nomination_id \in NominationIds(call.before)
    /\ Status(call.before[call.nomination_id]) = "approved"
    /\ Status(fact_nomination[call.nomination_id]) = "refused"

\* C6: a status write whose id matches no stored nomination does not report
\* success and changes no nomination.
C6_UnknownIdReported ==
    (IsUpdate /\ call.nomination_id \notin NominationIds(call.before))
    => /\ ~call.ret
       /\ fact_nomination = call.before

GatedOps ==
    {"update_nomination_status", "add_hero", "update_hero", "delete_hero",
     "add_pillar", "update_pillar", "delete_pillar",
     "add_mission", "update_mission", "delete_mission"}

\* C7: on the three gated pages every status write and every hero, pillar and
\* mission write (add, update, delete) is issued by a run whose credential
\* check returned true in a session whose authenticated flag is true, and a
\* run of a session that is not authenticated changes none of the tables.
C7_WritesBehindGate ==
    [][/\ call'.op \in GatedOps => (call'.gate /\ call'.authenticated)
       /\ ~session_state["s1"].authenticated
            => UNCHANGED <<dim_hero, dim_pillar, dim_mission, fact_nomination>>]_vars

\* an authenticated session that committed an administrative write has just
\* committed a status write as well
C7_Witness ==
    /\ IsUpdate /\ call.page = "approval" /\ call.ret
    /\ call.gate /\ call.authenticated
    /\ admin_writes = 1

\* C8 as stated: once a nomination is approved or refused, no step of the
\* approval page changes its status again.
C8_TerminalNeverChanges ==
    [][\A i \in DOMAIN fact_nomination :
          Status(fact_nomination[i]) \in {"approved", "refused"}
          => Status(fact_nomination'[i]) = Status(fact_nomination[i])]_vars

PendingInFrame(df, id) ==
    \E k \in DOMAIN df : /\ df[k].nomination_id = id
                         /\ ~df[k].approved_flag /\ ~df[k].refuse_flag

\* C8: the approval page issues a status write only for a nomination that is
\* pending in the frame its run loaded; the nomination may have left pending
\* in the store since that load.
C8_OnlyPendingOffered ==
    (IsUpdate /\ call.page = "approval")
    => PendingInFrame(call.df, call.nomination_id)

\* a run that loaded a nomination as pending has just approved it after
\* another session had refused it
C8_Witness ==
    /\ IsUpdate /\ call.page = "approval" /\ call.ret
    /\ PendingInFrame(call.df, call.nomination_id)
    /\ Status(call.before[call.nomination_id]) = "refused"
    /\ Status(fact_nomination[call.nomination_id]) = "approved"

\* C9: when sessions that loaded a nomination as pending write different
\* targets on it, every write succeeds when the store works, the status is
\* the target of the write committed last, and approved_flag and refuse_flag
\* are never both true.
C9_LastWriteWins ==
    /\ \A i \in DOMAIN fact_nomination :
          /\ Status(fact_nomination[i]) # "both"
          /\ Status(fact_nomination[i]) =
                IF committed[i].target = "none" THEN "pending" ELSE committed[i].target
    /\ (IsUpdate /\ call.page = "approval" /\ call.fault = "none")
       => /\ call.ret
          /\ Status(fact_nomination[call.nomination_id]) = call.status_to_update

\* both sessions have committed a write on the nomination: the first
\* approved it, the second has just refused it
C9_Witness ==
    /\ IsUpdate /\ call.page = "approval" /\ call.ret
    /\ committed[call.nomination_id].writers = Sessions
    /\ PendingInFrame(call.df, call.nomination_id)
    /\ Status(call.before[call.nomination_id]) = "approved"
    /\ call.status_to_update = "refused"
    /\ Status(fact_nomination[call.nomination_id]) = "refused"

SameNomination(a, b) ==
    /\ a.nomination_id = b.nomination_id
    /\ a.nominator_id = b.nominator_id
    /\ a.nominee_id = b.nominee_id
    /\ a.mission_id = b.mission_id
    /\ a.justification = b.justification
    /\ a.image = b.image

\* C10: no insert and no status write removes a nomination or changes the
\* nominator, nominee, mission, justification or evidence of one, and a status
\* write leaves every nomination other than the one with its id as it was.
C10_TransitionFrame ==
    [][/\ Len(fact_nomination') >= Len(fact_nomination)
       /\ \A i \in DOMAIN fact_nomination :
             SameNomination(fact_nomination'[i], fact_nomination[i])
       /\ call'.op = "update_nomination_status"
            => /\ Len(fact_nomination') = Len(fact_nomination)
               /\ \A i \in DOMAIN fact_nomination :
                     fact_nomination[i].nomination_id # call'.nomination_id
                     => fact_nomination'[i] = fact_nomination[i]]_vars

\* the first of two nominations has just been approved while the second one
\* stays refused
C10_Witness ==
    /\ IsUpdate /\ call.ret /\ call.nomination_id = 1
    /\ Len(fact_nomination) = 2
    /\ Status(call.before[1]) = "pending"
    /\ Status(fact_nomination[1]) = "approved"
    /\ Status(fact_nomination[2]) = "refused"
    /\ fact_nomination[2] = call.before[2]

\* C11: a call of insert_nomination either appends exactly one row holding
\* every field it was given and returns True, or, when the connection or the
\* statement fails, leaves the table as it was and returns False; one call
\* makes one attempt.
C11_InsertAllOrNothing ==
    call.op = "insert_nomination"
    => IF call.fault = "none"
       THEN /\ call.ret
            /\ fact_nomination =
                 Append(call.before,
                        [nomination_id |-> Len(call.before) + 1,
                         nominator_id |-> call.nominator_id,
                         nominee_id |-> call.nominee_id,
                         mission_id |-> 1, justification |-> <<"ok">>, image |-> None,
                         approved_flag |-> FALSE, refuse_flag |-> FALSE])
       ELSE /\ ~call.ret
            /\ fact_nomination = call.before

\* an insert after an earlier one has just failed in its statement and left
\* the table as it was
C11_Witness ==
    /\ call.op = "insert_nomination" /\ call.fault = "query" /\ ~call.ret
    /\ Len(call.before) = 1
    /\ fact_nomination = call.before

\* C12: a status write sent from the approval page that hits a connection or
\* statement fault does not report success and leaves every nomination,
\* the targeted one included, as it was.
C12_TransitionFaultRolledBack ==
    (IsUpdate /\ call.page = "approval" /\ call.fault # "none")
    => /\ ~call.ret
       /\ fact_nomination = call.before

\* an approval of a pending nomination has just failed in its statement
C12_Witness ==
    /\ IsUpdate /\ call.page = "approval" /\ call.fault = "query"
    /\ call.status_to_update = "approved" /\ ~call.ret
    /\ Status(fact_nomination[call.nomination_id]) = "pending"

\* the nominations that reference a mission
Referencing(rows, mission_id) == {i \in DOMAIN rows : rows[i].mission_id = mission_id}

\* the reward a mission holds
RewardOf(missions, mission_id) ==
    (CHOOSE m \in missions : m.mission_id = mission_id).crystals_reward

\* the total of a dashboard loaded with nothing cached
FreshTotal(rows, heroes, missions, pillars) ==
    Total(load_dashboard_data(NoCache, rows, heroes, missions, pillars, "none").df)

\* C13: a nomination holds no reward of its own, and a call of update_mission
\* that changes a mission's reward from r to r' moves the total of a freshly
\* loaded dashboard by (r' - r) times the number of nominations that
\* reference the mission.
C13_RewardDerivedLive ==
    [][(call = NoCall /\ call'.op = "update_mission")
       => LET r == RewardOf(dim_mission, call'.mission_id)
              rNew == IF call'.ret THEN call'.reward ELSE r
          IN  /\ \A i \in DOMAIN fact_nomination :
                    "crystals_reward" \notin DOMAIN fact_nomination[i]
              /\ FreshTotal(fact_nomination, dim_hero, dim_mission', dim_pillar)
                   - FreshTotal(fact_nomination, dim_hero, dim_mission, dim_pillar)
                 = (rNew - r) * Cardinality(Referencing(fact_nomination, call'.mission_id))]_vars

\* the reward of the mission of two stored nominations has just been raised
\* from 5 to 10, and a fresh dashboard totals 20
C13_Witness ==
    /\ call.op = "update_mission" /\ call.ret
    /\ call.mission_id = 2 /\ call.reward = 10
    /\ Cardinality(Referencing(fact_nomination, 2)) = 2
    /\ FreshTotal(fact_nomination, dim_hero, dim_mission, dim_pillar) = 20

\* the reward of each stored nomination, read from its mission
StoredRewards ==
    [i \in DOMAIN fact_nomination |->
        RewardOf(dim_mission, fact_nomination[i].mission_id)]

\* C14: the KPI summary of a collection of nomination records is the number of
\* distinct nominees, the sum of the records' rewards and the number of
\* records; one nomination from Ana to Bruno on a mission worth 10 gives
\* total crystals 10 and total nominations 1.
C14_KpiSummary ==
    call.op = "aggregation"
    => /\ call.kpi.total_heroes
            = Cardinality({fact_nomination[i].nominee_id : i \in DOMAIN fact_nomination})
       /\ call.kpi.total_crystals = SeqSum(StoredRewards)
       /\ call.kpi.total_nominations = Len(fact_nomination)
       /\ (/\ Len(call.df) = 1
           /\ call.df[1].nominator_name = Ana /\ call.df[1].hero_name = Bruno
           /\ call.df[1].crystals_reward = 10)
          => /\ call.kpi.total_crystals = 10
             /\ call.kpi.total_nominations = 1

\* the summary of the one nomination from Ana to Bruno on a mission worth 10
C14_Witness ==
    /\ call.op = "aggregation"
    /\ Len(call.df) = 1
    /\ call.df[1].nominator_name = Ana /\ call.df[1].hero_name = Bruno
    /\ call.df[1].crystals_reward = 10
    /\ call.kpi = [total_heroes |-> 1, total_crystals |-> 10, total_nominations |-> 1]

\* the (nominee, team) groups of a frame, and the sum of the rewards of one
NomineeGroups(df) == {<<df[i].hero_name, df[i].hero_team>> : i \in DOMAIN df}
GroupReward(df, name, team) ==
    SeqSum([i \in DOMAIN df |->
              IF df[i].hero_name = name /\ df[i].hero_team = team
              THEN df[i].crystals_reward ELSE 0])

\* C15: the ranking of a non-empty collection of records holds each
\* (nominee, team) group exactly once, with the sum of the group's rewards,
\* and its totals do not increase from rank 1 downward.
C15_RankingGroupsOnceDescending ==
    (call.op = "aggregation" /\ call.df # <<>>)
    => LET ranking == call.ranking
       IN  /\ {<<ranking[k].hero_name, ranking[k].hero_team>> : k \in DOMAIN ranking}
                = NomineeGroups(call.df)
           /\ Len(ranking) = Cardinality(NomineeGroups(call.df))
           /\ \A k \in DOMAIN ranking :
                 ranking[k].crystals_reward
                   = GroupReward(call.df, ranking[k].hero_name, ranking[k].hero_team)
           /\ \A j, k \in DOMAIN ranking :
                 j < k => ranking[j].crystals_reward >= ranking[k].crystals_reward

\* two nominations of 5 to Carla, from Ana and from Bruno, rank as one row of 10
C15_Witness ==
    /\ call.op = "aggregation"
    /\ Len(call.df) = 2
    /\ \A i \in 1..2 : call.df[i].hero_name = Carla /\ call.df[i].crystals_reward = 5
    /\ call.df[1].nominator_name # call.df[2].nominator_name
    /\ Len(call.ranking) = 1
    /\ call.ranking[1].hero_name = Carla /\ call.ranking[1].crystals_reward = 10

\* C16: the totals of the ranking of a collection of records add up to the
\* total reward the KPI summary reports for the same records.
C16_RankingSumIsKpiTotal ==
    call.op = "aggregation"
    => SeqSum(ToList(call.ranking, "crystals_reward")) = call.kpi.total_crystals

\* one nominee nominated on a mission worth 10 and on one worth 5: the one
\* row of the ranking and the KPI total are both 15
C16_Witness ==
    /\ call.op = "aggregation"
    /\ Len(call.df) = 2 /\ Len(call.ranking) = 1
    /\ call.df[1].crystals_reward # call.df[2].crystals_reward
    /\ SeqSum(ToList(call.ranking, "crystals_reward")) = 15
    /\ call.kpi.total_crystals = 15

\* C17: groups of the ranking with equal totals come in the order in which
\* their first records appear in the collection that was ranked.
C17_TiesByFirstAppearance ==
    call.op = "aggregation"
    => \A j, k \in DOMAIN call.ranking :
          (j < k /\ call.ranking[j].crystals_reward = call.ranking[k].crystals_reward)
          => FirstIndex(call.df, "hero_name", call.ranking[j].hero_name)
               < FirstIndex(call.df, "hero_name", call.ranking[k].hero_name)

\* C18: the node identifiers of a drawn flow graph are pairwise distinct
\* across the nominator, pillar and nominee tiers, so that every edge endpoint
\* names one node, and a tagged nominee node is labelled with the nominee's
\* original name.
C18_NodeIdentifiersDistinct ==
    (call.op = "aggregation" /\ call.sankey.shown)
    => LET all_nodes == call.sankey.all_nodes
           first_nominee == Len(call.sankey.nominators) + Len(call.sankey.pillars) + 1
       IN  /\ \A j, k \in DOMAIN all_nodes : j # k => all_nodes[j] # all_nodes[k]
           /\ \A l \in DOMAIN call.sankey.links :
                 /\ all_nodes[call.sankey.links[l].source + 1] = call.sankey.links[l].from
                 /\ call.sankey.display_labels[call.sankey.links[l].source + 1]
                      = call.sankey.links[l].from
                 /\ call.sankey.display_labels[call.sankey.links[l].target + 1]
                      = call.sankey.links[l].to
           /\ \A k \in first_nominee..Len(all_nodes) :
                 call.sankey.display_labels[k] = call.sankey.nominees[k - first_nominee + 1]

\* whether x is one of the elements of the list l
InList(x, l) == \E k \in DOMAIN l : l[k] = x

\* the sum of the rewards of the records of df that run along a link and whose
\* nominator is among nominators and whose nominee is among nominees
RestrictedFlow(df, link, nominators, nominees) ==
    SeqSum([i \in DOMAIN df |->
              IF /\ InList(df[i].nominator_name, nominators)
                 /\ InList(df[i].hero_name, nominees)
                 /\ IF link.layer = "nominator-pillar"
                    THEN df[i].nominator_name = link.from /\ df[i].pillar_name = link.to
                    ELSE df[i].pillar_name = link.from /\ df[i].hero_name = link.to
              THEN df[i].crystals_reward ELSE 0])

\* C19: the weight of every nominator -> pillar edge and of every
\* pillar -> nominee edge of the flow graph is the sum of the rewards of the
\* records with that source and target whose nominator is among the top-N
\* nominators and whose nominee is among the top-N nominees.
C19_EdgeWeightsRestrictedToTopSets ==
    (call.op = "aggregation" /\ call.sankey.shown)
    => \A l \in DOMAIN call.sankey.links :
          call.sankey.links[l].value
            = RestrictedFlow(call.df, call.sankey.links[l], call.sankey.nominators,
                             call.sankey.nominees)

\* the sum of the weights of the edges of one layer of a figure
LayerSum(sankey, layer) ==
    SeqSum([l \in DOMAIN sankey.links |->
              IF sankey.links[l].layer = layer THEN sankey.links[l].value ELSE 0])

\* C20: for every collection of records and every N, the nominator -> pillar
\* edge weights of the flow graph add up to no more than the total reward of
\* all the records, and so do its pillar -> nominee edge weights.
C20_LayerSumsWithinTotal ==
    call.op = "aggregation"
    => /\ LayerSum(call.sankey, "nominator-pillar") <= Total(call.df)
       /\ LayerSum(call.sankey, "pillar-nominee") <= Total(call.df)

\* a figure drawn for the top nominator and the top nominee of two of each,
\* both layers carrying less than the total
C20_Witness ==
    /\ call.op = "aggregation" /\ call.sankey.shown /\ call.top_n = 1
    /\ Cardinality(Values(call.df, "nominator_name")) = 2
    /\ Cardinality(Values(call.df, "hero_name")) = 2
    /\ LayerSum(call.sankey, "nominator-pillar") > 0
    /\ LayerSum(call.sankey, "nominator-pillar") < Total(call.df)
    /\ LayerSum(call.sankey, "pillar-nominee") > 0
    /\ LayerSum(call.sankey, "pillar-nominee") < Total(call.df)

\* C21: the flow graph of an empty collection of records, or for top-N = 0,
\* is the explicitly empty result: nothing is drawn, no node and no edge is
\* built; and whenever a figure is drawn it has edges.
C21_EmptyFlowGraph ==
    call.op = "aggregation"
    => /\ (call.df = <<>> \/ call.top_n = 0)
          => /\ ~call.sankey.shown
             /\ call.sankey.all_nodes = <<>>
             /\ call.sankey.links = <<>>
       /\ call.sankey.shown
          => /\ call.sankey.links # <<>>
             /\ call.sankey.all_nodes # <<>>
       /\ ~call.sankey.shown => call.sankey = NoDiagram

\* the flow graph was asked for the top 0 of a collection of two records and
\* nothing was drawn
C21_Witness ==
    /\ call.op = "aggregation"
    /\ Len(call.df) = 2 /\ call.top_n = 0
    /\ call.sankey = NoDiagram

\* C22: no two stored heroes have the same name, whatever add_hero and
\* update_hero writes were made.
C22_HeroNamesUnique ==
    \A h1, h2 \in dim_hero : h1.hero_name = h2.hero_name => h1.hero_id = h2.hero_id

\* C23: every stored pillar has a name that is not empty and not only
\* whitespace, whatever pillars were added and edited on the administration
\* page.
C23_PillarNamesNonEmpty ==
    \A p \in dim_pillar : truthy(strip(p.pillar_name))

\* C24: in a drawn flow graph every nominator -> pillar edge starts at a node
\* placed in the nominator band and ends at one placed in the pillar band,
\* and every pillar -> nominee edge starts in the pillar band and ends in the
\* nominee band.
C24_EdgesBetweenBands ==
    (call.op = "aggregation" /\ call.sankey.shown)
    => \A l \in DOMAIN call.sankey.links :
          LET link == call.sankey.links[l]
              from_band == call.sankey.tiers[link.source + 1]
              to_band == call.sankey.tiers[link.target + 1]
          IN  IF link.layer = "nominator-pillar"
              THEN from_band = "nominator" /\ to_band = "pillar"
              ELSE from_band = "pillar" /\ to_band = "nominee"

\* the name of the hero with an id
HeroName(heroes, hero_id) == (CHOOSE h \in heroes : h.hero_id = hero_id).hero_name

\* a loaded dataset holds one row for every stored nomination, newest first,
\* with the names of its heroes and the reward its mission holds now
ReflectsEveryNomination(loaded) ==
    /\ Len(loaded) = Len(fact_nomination)
    /\ \A k \in DOMAIN loaded :
          LET fn == fact_nomination[Len(fact_nomination) + 1 - k]
          IN  /\ loaded[k].hero_name = HeroName(dim_hero, fn.nominee_id)
              /\ loaded[k].nominator_name = HeroName(dim_hero, fn.nominator_id)
              /\ loaded[k].crystals_reward = RewardOf(dim_mission, fn.mission_id)

\* C25: while a dataset is memoized (for five minutes after the load that
\* produced it) a load returns that dataset, whatever nominations were created
\* and whatever missions were changed since; the first load after the window
\* has expired, when it reaches the store, returns every nomination committed
\* before it.
C25_MemoizedForWindow ==
    [][(call = NoCall /\ call'.op = "show_page")
       => IF cache_data.kept
          THEN /\ call'.loaded = cache_data.df
               /\ cache_data' = cache_data
          ELSE /\ call'.fault = "none" => ReflectsEveryNomination(call'.loaded)
               /\ cache_data' = [kept |-> TRUE, df |-> call'.loaded]]_vars

\* a load inside the window has just returned the one nomination worth 10
\* that was loaded before, while the store holds two nominations and the
\* mission is now worth 1
C25_Witness ==
    /\ call.op = "show_page" /\ call.fault = "none"
    /\ Len(call.loaded) = 1 /\ call.loaded[1].crystals_reward = 10
    /\ Len(fact_nomination) = 2
    /\ RewardOf(dim_mission, 1) = 1
    /\ cache_data.kept /\ cache_data.df = call.loaded

\* the stored nominations with every status erased
AllPending(rows) ==
    [i \in DOMAIN rows |-> [rows[i] EXCEPT !.approved_flag = FALSE, !.refuse_flag = FALSE]]

\* C26: the dashboard's aggregates are computed over every nomination,
\* whatever its status: the KPI summary counts and totals all stored
\* nominations, the ranking, the pillar distribution and the flow graph are
\* those of the same nominations taken as pending, and a status write that
\* changes a nomination leaves the freshly loaded frame as it was.
C26_AggregatesIgnoreStatus ==
    /\ [](call.op = "aggregation"
          => LET unmarked == DashboardQuery(AllPending(fact_nomination), dim_hero,
                                            dim_mission, dim_pillar)
             IN  /\ call.kpi.total_nominations = Len(fact_nomination)
                 /\ call.kpi.total_crystals = SeqSum(StoredRewards)
                 /\ call.kpi = show_kpi_cards(unmarked)
                 /\ call.ranking \in show_hero_ranking(unmarked)
                 /\ show_pillar_distribution_chart(call.df)
                      = show_pillar_distribution_chart(unmarked)
                 /\ call.sankey \in show_sankey_diagram(unmarked, call.top_n))
    /\ [][(call'.op = "update_nomination_status" /\ fact_nomination' # fact_nomination)
          => load_dashboard_data(NoCache, fact_nomination', dim_hero', dim_mission',
                                 dim_pillar', "none")
               = load_dashboard_data(NoCache, fact_nomination, dim_hero, dim_mission,
                                     dim_pillar, "none")]_vars

\* the aggregates of a store that holds a refused and a pending nomination
\* count both: two nominations, 20 crystals
C26_Witness ==
    /\ call.op = "aggregation"
    /\ Len(fact_nomination) = 2
    /\ Status(fact_nomination[1]) = "refused"
    /\ Status(fact_nomination[2]) = "pending"
    /\ call.kpi.total_nominations = 2 /\ call.kpi.total_crystals = 20

----------------------------------------------------------------------------
(* The credential gate alone, under every configuration of ADMIN_PASSWORD *)

GatedPages == {"approval", "heroes", "missions"}

\* os.getenv("ADMIN_PASSWORD"): unset, set to the empty text, set
PasswordConfigs == {None, <<>>, <<"secret">>}

GateEvents == {OpenEvent, LogoutEvent} \cup LoginEvents

\* The top of a script run of a gated page, down to the point where the page
\* body starts: ret says whether the body runs, authenticated is the flag the
\* run leaves.  pages/4 tests the logout button after the gate, inside
\* show_approval_page; pages/5 and pages/6 run the logout callback before the
\* script, so the gate already sees the cleared flag.
gate_of_page(page, authenticated, ev, correct_password) ==
    IF page = "approval"
    THEN LET g == check_password(authenticated, ev, correct_password)
             logged_out == g.ret /\ g.ev.kind = "logout"
         IN  [ret |-> g.ret /\ ~logged_out, authenticated |-> g.authenticated /\ ~logged_out]
    ELSE LET g == check_password(authenticated /\ ev.kind # "logout", ev, correct_password)
         IN  [ret |-> g.ret, authenticated |-> g.authenticated]

\* One run of a gated page as far as the gate and the logout are concerned.
GateCall(s) ==
    /\ call = NoCall
    /\ \E page \in GatedPages, ev \in GateEvents :
         LET g == gate_of_page(page, session_state[s].authenticated, ev, ADMIN_PASSWORD)
         IN  /\ session_state' = [session_state EXCEPT ![s].authenticated = g.authenticated]
             /\ call' = [op |-> "check_password", page |-> page, session |-> s, ev |-> ev,
                         before |-> session_state[s].authenticated, ret |-> g.ret,
                         authenticated |-> g.authenticated]
    /\ UNCHANGED <<dbDims, fact_nomination, committed, run, ADMIN_PASSWORD, cache_data>>

InitGate ==
    /\ dim_hero = SeedHeroes
    /\ dim_pillar = SeedPillars
    /\ dim_mission = SeedMissions
    /\ hero_seq = 2
    /\ pillar_seq = 1
    /\ mission_seq = 1
    /\ fact_nomination = <<SeededNomination(1)>>
    /\ committed = <<NotWritten>>
    /\ session_state = [s \in Sessions |-> FreshSession]
    /\ run = [s \in Sessions |-> IdleRun]
    /\ ADMIN_PASSWORD \in PasswordConfigs
    /\ call = NoCall
    /\ admin_writes = 0
    /\ cache_data = NoCache

NextGate == (\E s \in Sessions : GateCall(s)) \/ EndOfRun

SpecGate == InitGate /\ [][NextGate]_vars

\* C27: a session's authenticated flag turns true only in a run that submits
\* a password equal to a configured, non-empty ADMIN_PASSWORD; with
\* ADMIN_PASSWORD unset or empty no session is ever authenticated; a login
\* attempt that fails leaves the flag as it was; and an authenticated session
\* passes the gate of every gated page, its flag staying true, until a run
\* that presses logout clears it.
C27_AuthenticatedOnlyByPassword ==
    /\ [](~truthy(ADMIN_PASSWORD) => \A s \in Sessions : ~session_state[s].authenticated)
    /\ [][\A s \in Sessions :
            LET was == session_state[s].authenticated
                is == session_state'[s].authenticated
                mine == call'.op = "check_password" /\ call'.session = s
            IN  /\ (~was /\ is) => /\ mine
                                   /\ call'.ev.kind = "login"
                                   /\ truthy(ADMIN_PASSWORD)
                                   /\ call'.ev.text = ADMIN_PASSWORD
                /\ (mine /\ call'.ev.kind = "login"
                         /\ ~(truthy(ADMIN_PASSWORD) /\ call'.ev.text = ADMIN_PASSWORD))
                      => is = was
                /\ (mine /\ was /\ call'.ev.kind # "logout") => (is /\ call'.ret)
                /\ (was /\ ~is) => (mine /\ call'.ev.kind = "logout")]_vars

\* C27 witness: a session that logged in on one page has just passed the gate
\* of another page without a password, while the other session is still
\* outside.
C27_Witness ==
    /\ call.op = "check_password"
    /\ call.session = "s1"
    /\ call.page = "missions"
    /\ call.ev.kind = "open"
    /\ call.before /\ call.ret
    /\ session_state["s1"].authenticated
    /\ ~session_state["s2"].authenticated

----------------------------------------------------------------------------
(* The nomination page over a catalogue where two pillars each have a
   mission of the same name *)

SharedNamePillars == SeedPillars \cup {[pillar_id |-> 2, pillar_name |-> Courage,
                                        pillar_image |-> None]}
SharedNameMissions == SeedMissions \cup {[mission_id |-> 2, mission_name |-> Helped,
                                          mission_describe |-> Described,
                                          crystals_reward |-> 20, pillar_id |-> 2]}

InitSharedNames ==
    /\ dim_hero = SeedHeroes
    /\ dim_pillar = SharedNamePillars
    /\ dim_mission = SharedNameMissions
    /\ hero_seq = 2
    /\ pillar_seq = 2
    /\ mission_seq = 2
    /\ fact_nomination = <<>>
    /\ committed = <<>>
    /\ session_state = [s \in Sessions |-> FreshSession]
    /\ run = [s \in Sessions |-> IdleRun]
    /\ ADMIN_PASSWORD = <<"secret">>
    /\ call = NoCall
    /\ admin_writes = 0
    /\ cache_data = NoCache

\* every way of filling the form when both pillars are on offer
SharedNameForms ==
    {Form(target, nomeador, nomeado, pilar, missao, justificativa, anexo, clicked) :
       target \in {"show_nomination_page", "handle_submission"},
       nomeador \in {None, Ana, Bruno}, nomeado \in {None, Ana, Bruno},
       pilar \in {None, Teamwork, Courage}, missao \in {None, Helped},
       justificativa \in Justifications, anexo \in Uploads, clicked \in BOOLEAN}

NextSharedNames ==
    FillNominationForm(SharedNameForms) \/ ShowNominationPage \/ HandleSubmissionCall
      \/ EndOfRun

SpecSharedNames == InitSharedNames /\ [][NextSharedNames]_vars

\* C28: the nomination a submission of the page has just inserted references
\* the heroes whose names were selected and the mission that has the selected
\* name within the selected pillar.
C28_ReferencesSelection ==
    (call.op = "show_nomination_page" /\ call.outcome = "inserted")
      => LET row == fact_nomination[Len(fact_nomination)]
         IN  /\ \E h \in dim_hero : h.hero_id = row.nominator_id /\ h.hero_name = call.nomeador
             /\ \E h \in dim_hero : h.hero_id = row.nominee_id /\ h.hero_name = call.nomeado
             /\ \E m \in dim_mission, p \in dim_pillar :
                  /\ m.mission_id = row.mission_id
                  /\ m.mission_name = call.missao
                  /\ m.pillar_id = p.pillar_id
                  /\ p.pillar_name = call.pilar

----------------------------------------------------------------------------
(* An administrator on the hero page and on the pillar and mission page,
   while another administrator deletes rows *)

\* delete_hero, delete_pillar or delete_mission committed from another
\* browser session
OtherAdminDeletes ==
    /\ call = NoCall
    /\ \E table \in {"dim_hero", "dim_pillar", "dim_mission"} :
         /\ dim_hero' = IF table = "dim_hero"
                        THEN execute_query(dim_hero, delete_hero(dim_hero, 1), "none").db
                        ELSE dim_hero
         /\ dim_pillar' = IF table = "dim_pillar"
                          THEN execute_query(dim_pillar, delete_pillar(dim_pillar, 1), "none").db
                          ELSE dim_pillar
         /\ dim_mission' = IF table = "dim_mission"
                           THEN execute_query(dim_mission, delete_mission(dim_mission, 1),
                                              "none").db
                           ELSE dim_mission
    /\ UNCHANGED <<hero_seq, pillar_seq, mission_seq, admin_writes, fact_nomination, committed,
                   session_state, run, ADMIN_PASSWORD, cache_data, call>>

NextAdmins ==
    \/ HeroesPageRun("s1")
    \/ MissionsPageRun("s1")
    \/ OtherAdminDeletes
    \/ EndOfRun

SpecAdmins == InitApp /\ [][NextAdmins]_vars

\* the run of session s got past the gate and did not log out
BehindGate(s) == session_state[s].authenticated /\ session_state'[s].authenticated

\* the session's editing id names a row that is no longer stored
StaleHeroId(s) ==
    /\ session_state[s].editing_hero_id # NoId
    /\ ~\E h \in dim_hero : h.hero_id = session_state[s].editing_hero_id
StalePillarId(s) ==
    /\ session_state[s].editing_pillar_id # NoId
    /\ ~\E p \in dim_pillar : p.pillar_id = session_state[s].editing_pillar_id
StaleMissionId(s) ==
    /\ session_state[s].editing_mission_id # NoId
    /\ ~\E m \in dim_mission : m.mission_id = session_state[s].editing_mission_id

\* C29: when an administrative page is run by a session whose editing id (of
\* a hero, a pillar or a mission) names an entity that no longer exists, the
\* run clears that editing id and does not fail.
C29_StaleEditingIdCleared ==
    [][\A s \in Sessions :
         /\ (HeroesPageRun(s) /\ BehindGate(s) /\ StaleHeroId(s))
              => session_state'[s].editing_hero_id = NoId
         /\ (MissionsPageRun(s) /\ BehindGate(s) /\ StalePillarId(s))
              => (session_state'[s].editing_pillar_id = NoId /\ call'.op # "IndexError")
         /\ (MissionsPageRun(s) /\ BehindGate(s) /\ StaleMissionId(s))
              => (session_state'[s].editing_mission_id = NoId /\ call'.op # "IndexError")]_vars

----------------------------------------------------------------------------
(* Connections: what each repository operation does with the connection it
   opens (pages/3 load_data_from_db and insert_nomination, pages/4
   update_nomination_status, pages/5 execute_query) *)

RepositoryOps ==
    {"load_data_from_db", "insert_nomination", "update_nomination_status", "execute_query"}

\* the operation only reads (pd.read_sql_query): no commit and no rollback
IsFetch(op, fetch) == op = "load_data_from_db" \/ (op = "execute_query" /\ fetch)

\* Operations that close the connection as the last statement of the try
\* block instead of in a finally clause.
connection_steps_no_finally(op, fetch, status_to_update, fault) ==
    IF fault = "connect" THEN <<"connect failed">>
    ELSE IF op = "update_nomination_status" /\ status_to_update \notin {"approved", "refused"}
    THEN <<"connect">>
    ELSE IF fault = "query"
    THEN IF IsFetch(op, fetch) THEN <<"connect", "query failed">>
         ELSE <<"connect", "query failed", "rollback">>
    ELSE IF IsFetch(op, fetch) THEN <<"connect", "query", "close">>
         ELSE <<"connect", "query", "commit", "close">>

\* The calls an operation makes on its connection, in order.  get_db_connection
\* returns None when connecting fails, and then neither the query nor the
\* close of the finally clause (`if conn:`) is reached; otherwise the finally
\* clause closes after the early return, after the except clause and after
\* the normal return alike.
connection_steps(op, fetch, status_to_update, fault) ==
    IF fault = "connect" THEN <<"connect failed">>
    ELSE IF op = "update_nomination_status" /\ status_to_update \notin {"approved", "refused"}
    THEN <<"connect", "close">>
    ELSE IF fault = "query"
    THEN IF IsFetch(op, fetch) THEN <<"connect", "query failed", "close">>
         ELSE <<"connect", "query failed", "rollback", "close">>
    ELSE IF IsFetch(op, fetch) THEN <<"connect", "query", "close">>
         ELSE <<"connect", "query", "commit", "close">>

Occurrences(steps, step) == Cardinality({i \in DOMAIN steps : steps[i] = step})

\* connections opened and not closed by the calls in `steps`
LeftOpen(steps) == Occurrences(steps, "connect") - Occurrences(steps, "close")

\* connections still open from the operations before this one
OpenBefore == IF call.op \in RepositoryOps THEN call.open ELSE 0

RepositoryRecord(op, fetch, status_to_update, fault, ok, df) ==
    [op |-> op, fetch |-> fetch, status_to_update |-> status_to_update, fault |-> fault,
     ok |-> ok, df |-> df,
     steps |-> connection_steps(op, fetch, status_to_update, fault),
     open |-> OpenBefore + LeftOpen(connection_steps(op, fetch, status_to_update, fault)),
     before |-> <<fact_nomination, dim_hero>>]

\* load_data_from_db on the heroes query of pages/3
ConnLoad ==
    /\ \E fault \in Faults : \E df \in load_data_from_db(HeroesQuery(dim_hero), fault) :
         call' = RepositoryRecord("load_data_from_db", TRUE, "none", fault, df # <<>>, df)
    /\ UNCHANGED <<dbDims, fact_nomination, committed, session_state, run, ADMIN_PASSWORD,
                   cache_data>>

ConnInsert ==
    /\ Len(fact_nomination) < MaxNominations
    /\ \E fault \in Faults :
         LET r == insert_nomination(fact_nomination, 1, 2, 1, <<"ok">>, None, fault)
         IN  /\ fact_nomination' = r.rows
             /\ committed' = IF r.ret THEN Append(committed, NotWritten) ELSE committed
             /\ call' = RepositoryRecord("insert_nomination", FALSE, "none", fault, r.ret, <<>>)
    /\ UNCHANGED <<dbDims, session_state, run, ADMIN_PASSWORD, cache_data>>

ConnUpdate ==
    /\ \E nomination_id \in 1..MaxNominations,
          status_to_update \in {"approved", "refused", "pending"}, fault \in Faults :
         LET r == update_nomination_status(fact_nomination, nomination_id,
                                           status_to_update, fault)
         IN  /\ fact_nomination' = r.rows
             /\ committed' = IF r.ret
                             THEN Committed(committed, nomination_id, status_to_update, "repo")
                             ELSE committed
             /\ call' = RepositoryRecord("update_nomination_status", FALSE, status_to_update,
                                         fault, r.ret, <<>>)
    /\ UNCHANGED <<dbDims, session_state, run, ADMIN_PASSWORD, cache_data>>

\* execute_query of pages/5: load_heroes (fetch) or delete_hero (no fetch)
ConnExecute ==
    /\ \E fetch \in BOOLEAN, fault \in Faults :
         IF fetch
         THEN /\ \E df \in load_heroes(dim_hero, fault) :
                   call' = RepositoryRecord("execute_query", TRUE, "none", fault, df # <<>>, df)
              /\ UNCHANGED dim_hero
         ELSE LET q == execute_query(dim_hero, delete_hero(dim_hero, hero_seq), fault)
              IN  /\ dim_hero' = q.db
                  /\ call' = RepositoryRecord("execute_query", FALSE, "none", fault, q.ret, <<>>)
    /\ UNCHANGED <<dim_pillar, dim_mission, hero_seq, pillar_seq, mission_seq, admin_writes,
                   fact_nomination, committed, session_state, run, ADMIN_PASSWORD, cache_data>>

NextConn == ConnLoad \/ ConnInsert \/ ConnUpdate \/ ConnExecute

SpecConn == Init /\ [][NextConn]_vars

\* C30: every repository operation closes the connection it opened, whether
\* it returns normally, returns early for an invalid target status, or fails
\* and rolls back, so that no connection is open after any sequence of
\* operations; and an operation that could not connect sends no query, closes
\* nothing, changes nothing and returns the empty frame or False.
C30_ConnectionsClosed ==
    call.op \in RepositoryOps
      => /\ call.open = 0
         /\ LeftOpen(call.steps) = 0
         /\ call.fault # "connect"
              => (call.steps[1] = "connect" /\ call.steps[Len(call.steps)] = "close")
         /\ (call.fault = "query" /\ ~IsFetch(call.op, call.fetch)
               /\ ~(call.op = "update_nomination_status" /\ call.status_to_update = "pending"))
              => (Occurrences(call.steps, "rollback") = 1 /\ ~call.ok)
         /\ (call.op = "update_nomination_status" /\ call.status_to_update = "pending"
               /\ call.fault # "connect")
              => (call.steps = <<"connect", "close">> /\ ~call.ok)
         /\ call.fault = "connect"
              => /\ Occurrences(call.steps, "query") = 0
                 /\ Occurrences(call.steps, "query failed") = 0
                 /\ ~call.ok /\ call.df = <<>>
                 /\ call.before = <<fact_nomination, dim_hero>>

\* C30 witness: with one nomination stored, a status write with an invalid
\* target status has returned early and no connection is open.
C30_Witness ==
    /\ call.op = "update_nomination_status"
    /\ call.status_to_update = "pending"
    /\ call.fault = "none"
    /\ call.steps = <<"connect", "close">>
    /\ call.open = 0
    /\ Len(fact_nomination) = 1

====
